---------------------------- MODULE Spec2Model ----------------------------
(***************************************************************************)
(* A model of the thermocalc repository: the shared utility functions      *)
(* (utils.py), the menu program (run_all.py) with the two parts it runs    *)
(* (part_a_carbon_steel.py, part_b_simplified.py), the Part B that calls   *)
(* the solver (part_b_stainless_steel.py) and the setup test               *)
(* (test_setup.py).                                                        *)
(*                                                                         *)
(* Specifications: SpecUtil calls the utility functions on drawn inputs,   *)
(* Spec runs run_all.py, SpecStainless runs part_b_stainless_steel.py,     *)
(* SpecScripts runs any of the four scripts, SpecLoads calls the database  *)
(* loaders repeatedly.                                                     *)
(*                                                                         *)
(* Python floats are IEEE-754 binary floating point numbers rounded to     *)
(* nearest, ties to even.  They are modelled as such, with a significand   *)
(* of MantBits bits (53 in CPython) and no exponent limits: a float is a   *)
(* pair <<m, e>> standing for m * 2^e, either <<0, 0>> or normalised so    *)
(* that 2^(MantBits-1) <= |m| < 2^MantBits.  Normalisation makes equality  *)
(* of pairs the equality of floats.                                        *)
(***************************************************************************)
EXTENDS Integers, Sequences, FiniteSets, TLC

VARIABLES
    call,       \* the utility call pending or returned: [fn, args, state, res]
    sum_impl,   \* the builtin sum of the interpreter: "naive" or "neumaier"
    script,     \* the script run as __main__
    pc,         \* where the script is
    status,     \* "running", or how the script ended: "done" (end of the
                \* script, exit status 0), "exit0", "exit1" (sys.exit), or
                \* "traceback" (an exception nothing caught)
    installed,  \* the packages that can be imported
    stdin,      \* the lines still to be read from standard input
    choice,     \* the menu choice read, stripped; NoChoice before
    fs,         \* the thermodynamic database files: name -> content
    log,        \* what the script did so far: calls, writes, prints, failures
    loc,        \* the local variables of the running main()
    results,    \* the rows of the result table of the running analysis
    caught      \* the exceptions caught so far: [kind, site]

utilVars == <<call, sum_impl>>
progVars == <<script, pc, status, installed, stdin, choice, fs, log, loc,
              results, caught>>
vars == <<call, sum_impl, script, pc, status, installed, stdin, choice, fs,
          log, loc, results, caught>>

(***************************************************************************)
(* Bounds of the model.                                                    *)
(***************************************************************************)
MantBits == 8       \* significand width of the modelled floats
GridMax == 10       \* compositions k/10 wt%, k in 0..GridMax, are tried
WtDen == 6          \* weight fractions k/WtDen, k in 0..WtDen, are tried

(***************************************************************************)
(* Binary floating point, round to nearest, ties to even.                  *)
(***************************************************************************)
RECURSIVE Pow2(_)
Pow2(n) == IF n <= 0 THEN 1 ELSE 2 * Pow2(n - 1)

Abs(x) == IF x < 0 THEN -x ELSE x

\* number of binary digits of n >= 0
RECURSIVE BitLen(_)
BitLen(n) == IF n = 0 THEN 0 ELSE 1 + BitLen(n \div 2)

Zero == <<0, 0>>

\* The float nearest to a value v with n*2^e <= v < (n+1)*2^e, n > 0, where
\* sticky says that v > n*2^e.
RoundPos(n, e, sticky) ==
    LET L == BitLen(n)
    IN  IF L <= MantBits
        THEN <<n * Pow2(MantBits - L), e - (MantBits - L)>>
        ELSE LET k == L - MantBits
                 q == n \div Pow2(k)
                 r == n % Pow2(k)
                 half == Pow2(k - 1)
                 up == \/ r > half
                       \/ r = half /\ sticky
                       \/ r = half /\ ~sticky /\ q % 2 = 1
                 q1 == IF up THEN q + 1 ELSE q
             IN  IF q1 = Pow2(MantBits)
                 THEN <<Pow2(MantBits - 1), e + k + 1>>
                 ELSE <<q1, e + k>>

\* The float nearest to n*2^e (n any integer), sticky as in RoundPos on |n|.
Round(n, e, sticky) ==
    IF n = 0 THEN Zero
    ELSE LET p == RoundPos(Abs(n), e, sticky)
         IN  IF n < 0 THEN <<-p[1], p[2]>> ELSE p

FNeg(a) == <<-a[1], a[2]>>

\* a + b.  An operand more than MantBits + 2 binary places below the other
\* is less than a quarter of the other's last place and leaves it unchanged.
FAdd(a, b) ==
    IF a[1] = 0 THEN b
    ELSE IF b[1] = 0 THEN a
    ELSE LET d == a[2] - b[2]
         IN  IF d > MantBits + 2 THEN a
             ELSE IF -d > MantBits + 2 THEN b
             ELSE LET lo == IF d >= 0 THEN b[2] ELSE a[2]
                  IN  Round(a[1] * Pow2(a[2] - lo) + b[1] * Pow2(b[2] - lo),
                            lo, FALSE)

FSub(a, b) == FAdd(a, FNeg(b))

FMul(a, b) == Round(a[1] * b[1], a[2] + b[2], FALSE)

\* a / b for b # 0 (Python raises ZeroDivisionError before dividing by 0.0).
FDiv(a, b) ==
    IF a[1] = 0 THEN Zero
    ELSE LET n == Abs(a[1]) * Pow2(MantBits + 2)
             d == Abs(b[1])
             q == n \div d
             s == IF (a[1] < 0) = (b[1] < 0) THEN 1 ELSE -1
         IN  Round(s * q, a[2] - b[2] - (MantBits + 2), n % d # 0)

\* The float a decimal literal n/d (d > 0) denotes.
FromRat(n, d) ==
    IF n = 0 THEN Zero
    ELSE LET k0 == MantBits + 2 + BitLen(d) - BitLen(Abs(n))
             k == IF k0 < 0 THEN 0 ELSE k0
             nn == Abs(n) * Pow2(k)
             q == nn \div d
         IN  Round((IF n < 0 THEN -q ELSE q), -k, nn % d # 0)

One == FromRat(1, 1)

FLt(a, b) ==
    IF a[1] <= 0 /\ b[1] > 0 THEN a # b
    ELSE IF a[1] < 0 /\ b[1] = 0 THEN TRUE
    ELSE IF a[1] >= 0 /\ b[1] <= 0 THEN FALSE
    ELSE IF a[1] > 0
         THEN a[2] < b[2] \/ (a[2] = b[2] /\ a[1] < b[1])
         ELSE a[2] > b[2] \/ (a[2] = b[2] /\ a[1] < b[1])

FLe(a, b) == a = b \/ FLt(a, b)

(***************************************************************************)
(* utils.lever_rule                                                        *)
(***************************************************************************)
Returned(v) == [exc |-> "none", val |-> v]
Raised(e) == [exc |-> e, val |-> <<>>]

\* lever_rule with the two results in the wrong order.
lever_rule_swapped(overall_comp, left_comp, right_comp) ==
    IF right_comp = left_comp
    THEN Returned(<<Zero, Zero>>)
    ELSE LET fraction_right == FDiv(FSub(overall_comp, left_comp),
                                    FSub(right_comp, left_comp))
             fraction_left == FSub(One, fraction_right)
         IN  Returned(<<fraction_right, fraction_left>>)

\* lever_rule with the left fraction from the textbook formula
\* (right - overall) / (right - left) instead of 1 - fraction_right.
lever_rule_textbook(overall_comp, left_comp, right_comp) ==
    IF right_comp = left_comp
    THEN Returned(<<Zero, Zero>>)
    ELSE LET den == FSub(right_comp, left_comp)
         IN  Returned(<<FDiv(FSub(right_comp, overall_comp), den),
                        FDiv(FSub(overall_comp, left_comp), den)>>)

\* lever_rule without the guard on equal bounding compositions.
lever_rule_unguarded(overall_comp, left_comp, right_comp) ==
    LET den == FSub(right_comp, left_comp)
    IN  IF den = Zero
        THEN Raised("ZeroDivisionError")
        ELSE LET fraction_right == FDiv(FSub(overall_comp, left_comp), den)
                 fraction_left == FSub(One, fraction_right)
             IN  Returned(<<fraction_left, fraction_right>>)

lever_rule(overall_comp, left_comp, right_comp) ==
    IF right_comp = left_comp
    THEN Returned(<<Zero, Zero>>)
    ELSE LET den == FSub(right_comp, left_comp)
         IN  IF den = Zero
             THEN Raised("ZeroDivisionError")
             ELSE LET fraction_right == FDiv(FSub(overall_comp, left_comp), den)
                      fraction_left == FSub(One, fraction_right)
                  IN  Returned(<<fraction_left, fraction_right>>)

(***************************************************************************)
(* Dictionaries are sequences of <<key, value>> pairs with distinct keys,  *)
(* in insertion order, which is the order Python iterates them in.         *)
(***************************************************************************)
HasKey(d, k) == \E i \in 1..Len(d) : d[i][1] = k

Get(d, k) == d[CHOOSE i \in 1..Len(d) : d[i][1] = k][2]

Values(d) == [i \in 1..Len(d) |-> d[i][2]]

\* float sum, left to right from 0 (CPython before 3.12)
RECURSIVE sum_naive(_)
sum_naive(xs) ==
    IF Len(xs) = 0 THEN Zero
    ELSE FAdd(sum_naive(SubSeq(xs, 1, Len(xs) - 1)), xs[Len(xs)])

FAbs(a) == IF a[1] < 0 THEN FNeg(a) ELSE a

\* the rounding error of t = f + x, recovered from the larger operand
neumaier_corr(f, x, t) ==
    IF FLe(FAbs(x), FAbs(f))
    THEN FAdd(FSub(f, t), x)
    ELSE FAdd(FSub(x, t), f)

\* one step of Neumaier's compensated summation: <<f_result, c>> after x
neumaier_step(fc, x) ==
    <<FAdd(fc[1], x),
      FAdd(fc[2], neumaier_corr(fc[1], x, FAdd(fc[1], x)))>>

\* float sum with Neumaier's compensation (CPython 3.12 and later):
\* <<f_result, c>> after the items of xs
RECURSIVE neumaier(_)
neumaier(xs) ==
    IF Len(xs) = 0 THEN <<Zero, Zero>>
    ELSE neumaier_step(neumaier(SubSeq(xs, 1, Len(xs) - 1)), xs[Len(xs)])

sum_neumaier(xs) ==
    LET fc == neumaier(xs)
    IN  IF fc[2] # Zero THEN FAdd(fc[1], fc[2]) ELSE fc[1]

py_sum(xs) == IF sum_impl = "neumaier" THEN sum_neumaier(xs) ELSE sum_naive(xs)

\* the exception of the first element of d, in order, whose key molar_masses
\* lacks (KeyError) or whose molar mass divides by zero (ZeroDivisionError
\* when zero_fails); "none" if no element fails
FirstFailure(d, molar_masses, zero_fails) ==
    LET Fails(i) == \/ ~HasKey(molar_masses, d[i][1])
                    \/ zero_fails /\ Get(molar_masses, d[i][1]) = Zero
    IN  IF \A i \in 1..Len(d) : ~Fails(i) THEN "none"
        ELSE LET i == CHOOSE j \in 1..Len(d) :
                          Fails(j) /\ \A h \in 1..(j - 1) : ~Fails(h)
             IN  IF HasKey(molar_masses, d[i][1]) THEN "ZeroDivisionError"
                 ELSE "KeyError"

\* a normalisation guarded like lever_rule: a dictionary whose total is
\* zero is returned as it is
Normalised_guarded(d) ==
    LET total == py_sum(Values(d))
    IN  IF total = Zero THEN Returned(d)
        ELSE Returned([i \in 1..Len(d) |-> <<d[i][1], FDiv(d[i][2], total)>>])

\* every element divided (or not) by the total of the dictionary
Normalised(d) ==
    LET total == py_sum(Values(d))
    IN  IF Len(d) > 0 /\ total = Zero THEN Raised("ZeroDivisionError")
        ELSE Returned([i \in 1..Len(d) |-> <<d[i][1], FDiv(d[i][2], total)>>])

\* wt_to_mole_fraction multiplying by the molar mass instead of dividing
wt_to_mole_fraction_times(wt_fractions, molar_masses) ==
    IF FirstFailure(wt_fractions, molar_masses, FALSE) # "none"
    THEN Raised(FirstFailure(wt_fractions, molar_masses, FALSE))
    ELSE Normalised([i \in 1..Len(wt_fractions) |->
            <<wt_fractions[i][1],
              FMul(wt_fractions[i][2],
                   Get(molar_masses, wt_fractions[i][1]))>>])

wt_to_mole_fraction(wt_fractions, molar_masses) ==
    IF FirstFailure(wt_fractions, molar_masses, TRUE) # "none"
    THEN Raised(FirstFailure(wt_fractions, molar_masses, TRUE))
    ELSE Normalised([i \in 1..Len(wt_fractions) |->
            <<wt_fractions[i][1],
              FDiv(wt_fractions[i][2],
                   Get(molar_masses, wt_fractions[i][1]))>>])

mole_to_wt_fraction(mole_fractions, molar_masses) ==
    IF FirstFailure(mole_fractions, molar_masses, FALSE) # "none"
    THEN Raised(FirstFailure(mole_fractions, molar_masses, FALSE))
    ELSE Normalised([i \in 1..Len(mole_fractions) |->
            <<mole_fractions[i][1],
              FMul(mole_fractions[i][2],
                   Get(molar_masses, mole_fractions[i][1]))>>])

(***************************************************************************)
(* Calls of the utility functions.  A behaviour draws a call and its       *)
(* arguments, then makes the call.                                         *)
(***************************************************************************)
\* the composition literals of the analyses: 0.02, 0.52, 0.76, 6.69 wt% C
Literals == {FromRat(2, 100), FromRat(52, 100), FromRat(76, 100),
             FromRat(669, 100)}

Grid == {FromRat(k, 10) : k \in 0..GridMax} \cup Literals

Pending(fn, args) ==
    [args |-> args, fn |-> fn, mid |-> Returned(<<>>), res |-> Returned(<<>>),
     state |-> "pending"]

LeverCalls == {Pending("lever_rule", <<o, l, r>>) : o \in Grid, l \in Grid, r \in Grid}

\* the elements of the Fe-Cr-C system and the molar masses the analyses use
Elements == {"FE", "CR", "C"}
Masses == {FromRat(55845, 1000), FromRat(51996, 1000), FromRat(12011, 1000),
           One}

\* the sequences of distinct elements: the key orders of a composition
KeyOrders ==
    {ks \in UNION {[1..n -> Elements] : n \in 1..Cardinality(Elements)} :
        \A i, j \in 1..Len(ks) : i # j => ks[i] # ks[j]}

\* the compositions over the keys ks with weight fractions k/WtDen that sum
\* to 1
Compositions(ks) ==
    {[i \in 1..Len(ks) |-> <<ks[i], FromRat(n[i], WtDen)>>] :
        n \in {m \in [1..Len(ks) -> 0..WtDen] :
                  (m[1] + (IF Len(ks) > 1 THEN m[2] ELSE 0)
                        + (IF Len(ks) > 2 THEN m[3] ELSE 0)) = WtDen}}

MolarMasses ==
    {<<<<"FE", fe>>, <<"CR", cr>>, <<"C", c>>>> :
        fe \in Masses, cr \in Masses, c \in Masses}

RoundTripCalls ==
    {Pending("round_trip", <<w, M>>) :
        w \in UNION {Compositions(ks) : ks \in KeyOrders}, M \in MolarMasses}

\* Python's None
None == "None"

\* the bodies of find_eutectic_point and find_eutectoid_point are a pass
\* statement: the call falls off the end of the function and returns None
find_eutectic_point(temp_grid, comp_grid, phases_present) == Returned(None)
find_eutectoid_point(temp_grid, comp_grid, phases_present) == Returned(None)

\* phase diagrams: a temperature grid, a composition grid and the phases
\* present at each point
Diagrams ==
    { <<temp_grid, comp_grid,
        [i \in 1..Len(temp_grid) |-> [j \in 1..Len(comp_grid) |-> ps]]>> :
      temp_grid \in {<<>>, <<1420>>, <<1000, 1420>>},
      comp_grid \in {<<>>, <<FromRat(43, 10)>>,
                     <<FromRat(76, 100), FromRat(43, 10)>>},
      ps \in {{"LIQUID"}, {"LIQUID", "FCC_A1", "CEMENTITE"},
              {"BCC_A2", "FCC_A1", "CEMENTITE"}} }
PointCalls ==
    {Pending(fn, d) : fn \in {"find_eutectic_point", "find_eutectoid_point"},
                      d \in Diagrams}

\* no script runs while the utility functions are called on their own
NoScript ==
    /\ script = "none"
    /\ pc = "idle"
    /\ status = "running"
    /\ installed = {}
    /\ stdin = <<>>
    /\ choice = <<"unread">>
    /\ fs = <<>>
    /\ log = <<>>
    /\ loc = <<>>
    /\ results = <<>>
    /\ caught = {}

InitUtil ==
    /\ call \in LeverCalls \cup RoundTripCalls \cup PointCalls
    /\ sum_impl \in {"naive", "neumaier"}
    /\ NoScript

CallLeverRule ==
    /\ call.fn = "lever_rule"
    /\ call.state = "pending"
    /\ call' = [call EXCEPT !.state = "returned",
                            !.res = lever_rule(call.args[1], call.args[2],
                                               call.args[3])]
    /\ UNCHANGED <<sum_impl, progVars>>

\* the first half of a round trip: weight fractions to mole fractions
CallWtToMoleFraction ==
    /\ call.fn = "round_trip"
    /\ call.state = "pending"
    /\ LET r == wt_to_mole_fraction(call.args[1], call.args[2])
       IN  call' = [call EXCEPT
                       !.state = IF r.exc = "none" THEN "converted"
                                 ELSE "returned",
                       !.mid = r, !.res = r]
    /\ UNCHANGED <<sum_impl, progVars>>

\* the second half: the mole fractions back to weight fractions
CallMoleToWtFraction ==
    /\ call.fn = "round_trip"
    /\ call.state = "converted"
    /\ call' = [call EXCEPT
                   !.state = "returned",
                   !.res = mole_to_wt_fraction(call.mid.val, call.args[2])]
    /\ UNCHANGED <<sum_impl, progVars>>

CallFindEutecticPoint ==
    /\ call.fn = "find_eutectic_point"
    /\ call.state = "pending"
    /\ call' = [call EXCEPT !.state = "returned",
                            !.res = find_eutectic_point(call.args[1],
                                        call.args[2], call.args[3])]
    /\ UNCHANGED <<sum_impl, progVars>>

CallFindEutectoidPoint ==
    /\ call.fn = "find_eutectoid_point"
    /\ call.state = "pending"
    /\ call' = [call EXCEPT !.state = "returned",
                            !.res = find_eutectoid_point(call.args[1],
                                        call.args[2], call.args[3])]
    /\ UNCHANGED <<sum_impl, progVars>>

NextUtil ==
    \/ CallFindEutecticPoint
    \/ CallFindEutectoidPoint
    \/ CallLeverRule
    \/ CallWtToMoleFraction
    \/ CallMoleToWtFraction

SpecUtil == InitUtil /\ [][NextUtil]_vars

(***************************************************************************)
(* quadratic_fit.  scipy's curve_fit is outside the repository; it is      *)
(* modelled by what it is called for: it takes the number of parameters    *)
(* from the signature of the model function, refuses fewer data points     *)
(* than parameters, and returns a parameter vector that minimises the sum  *)
(* of the squared residuals, any one of them if there are several.  The    *)
(* minimum is searched among the vectors over Coefficients.                *)
(***************************************************************************)
MaxPoints == 3
XMax == 3

\* a quadratic whose parameters are taken constant term first
quadratic_reversed(x, a, b, c) ==
    FAdd(FAdd(FMul(c, FMul(x, x)), FMul(b, x)), a)

\* a * x**2 + b * x + c
quadratic(x, a, b, c) ==
    FAdd(FAdd(FMul(a, FMul(x, x)), FMul(b, x)), c)

Coefficients == {FNeg(One), Zero, One, FromRat(2, 1)}
Parameters == {<<a, b, c>> : a \in Coefficients, b \in Coefficients,
                             c \in Coefficients}

residual(p, x, y) == FSub(quadratic(x, p[1], p[2], p[3]), y)

square(r) == FMul(r, r)

RECURSIVE squares(_, _, _, _)
squares(p, xdata, ydata, n) ==
    IF n = 0 THEN Zero
    ELSE FAdd(squares(p, xdata, ydata, n - 1),
              square(residual(p, xdata[n], ydata[n])))

Costs(xdata, ydata) ==
    {<<p, squares(p, xdata, ydata, Len(xdata))>> : p \in Parameters}

Minimisers(costs) ==
    {s[1] : s \in {t \in costs : \A u \in costs : FLe(t[2], u[2])}}

curve_fit(xdata, ydata) ==
    IF Len(xdata) < 3
    THEN {Raised("TypeError")}
    ELSE {Returned(popt) : popt \in Minimisers(Costs(xdata, ydata))}

\* popt, _ = curve_fit(quadratic, x_data, y_data); return tuple(popt)
quadratic_fit(x_data, y_data) == curve_fit(x_data, y_data)

\* data sets of up to MaxPoints points with x in 0..XMax that lie on one of
\* three curves: y = x^2, y = x, y = 2 - x^2
XData == UNION {[1..n -> {FromRat(k, 1) : k \in 0..XMax}] : n \in 2..MaxPoints}
Curves == {"square", "line", "cap"}
OnCurve(xs, q) ==
    [i \in 1..Len(xs) |->
        CASE q = "square" -> FMul(xs[i], xs[i])
          [] q = "line" -> xs[i]
          [] q = "cap" -> FSub(FromRat(2, 1), FMul(xs[i], xs[i]))]
FitCalls ==
    {Pending("quadratic_fit", <<xs, OnCurve(xs, q)>>) : xs \in XData, q \in Curves}

InitFit ==
    /\ call \in FitCalls
    /\ sum_impl = "naive"
    /\ NoScript

CallQuadraticFit ==
    /\ call.fn = "quadratic_fit"
    /\ call.state = "pending"
    /\ \E r \in quadratic_fit(call.args[1], call.args[2]) :
         call' = [call EXCEPT !.state = "returned", !.res = r]
    /\ UNCHANGED <<sum_impl, progVars>>

NextFit == CallQuadraticFit

SpecFit == InitFit /\ [][NextFit]_vars

(***************************************************************************)
(* The scripts.  A script runs from its first statement until it ends:     *)
(* at the end of its code ("done"), in sys.exit ("exit0", "exit1") or in   *)
(* an exception that nothing catches ("traceback").  log is the history of *)
(* what it did: the procedures it called and with which arguments, the     *)
(* files it wrote, the lines it read, the banners it printed and the       *)
(* exceptions that were raised.                                            *)
(***************************************************************************)
\* (record fields are written in alphabetical order throughout)
Ev(ev, what, args) == [args |-> args, ev |-> ev, what |-> what]

\* a value of the program and the procedure that returned it
Val(by, val) == [by |-> by, val |-> val]
Unset == Val("unset", <<>>)

NoChoice == <<"unread">>

\* an exception of some kind that a handler of site caught
Caught(kind, site) == [kind |-> kind, site |-> site]

\* the files of the working directory that hold a thermodynamic database
Absent == [kind |-> "absent", phases |-> {}]
Tdb(phases) == [kind |-> "tdb", phases |-> phases]
Garbage == [kind |-> "garbage", phases |-> {}]
Truncated == [kind |-> "truncated", phases |-> {}]

\* the phases of the database text of create_simple_fec_database
create_simple_fec_database ==
    Tdb({"LIQUID", "BCC_A2", "FCC_A1", "CEMENTITE", "GRAPHITE"})

\* the phases of the database text of create_fecrc_database
create_fecrc_database ==
    Tdb({"LIQUID", "BCC_A2", "FCC_A1", "CEMENTITE", "M23C6", "M7C3", "M3C"})

\* what a database file can hold when a script starts: nothing, the text the
\* program generates, a database from elsewhere, or something unreadable
Contents(generated) ==
    { Absent, generated, Garbage,
      Tdb(generated.phases \ {"GRAPHITE", "M3C"}),
      Tdb(generated.phases \cup {"SIGMA"}) }

\* os.path.exists(db_file)
exists(content) == content.kind # "absent"

\* a loader that writes the generated text whether the file is there or not
LoadOutcomes_rewrites(content, generated) ==
    { [content |-> generated, db |-> generated.phases, exc |-> "none"],
      [content |-> generated, db |-> {}, exc |-> "read"] }

\* The ways load_database and load_fecrc_database can go for a file holding
\* content: the content the file is left with, the exception raised and
\* the database returned
LoadOutcomes(content, generated) ==
    IF exists(content)
    THEN IF content.kind = "tdb"
         THEN { [content |-> content, db |-> content.phases, exc |-> "none"],
                [content |-> content, db |-> {}, exc |-> "read"] }
         ELSE { [content |-> content, db |-> {}, exc |-> "parse"] }
    ELSE { [content |-> Absent, db |-> {}, exc |-> "open"],
           [content |-> Truncated, db |-> {}, exc |-> "write"],
           [content |-> generated, db |-> {}, exc |-> "read"],
           [content |-> generated, db |-> generated.phases, exc |-> "none"] }

\* os.path.join('outputs', filename)
Path(dir, filename) == <<dir, filename>>

\* str.strip() of a line, a sequence of characters
Whitespace == {" ", "\t"}

RECURSIVE lstrip(_)
lstrip(s) ==
    IF s # <<>> /\ Head(s) \in Whitespace THEN lstrip(Tail(s)) ELSE s

RECURSIVE rstrip(_)
rstrip(s) ==
    IF s # <<>> /\ s[Len(s)] \in Whitespace
    THEN rstrip(SubSeq(s, 1, Len(s) - 1))
    ELSE s

\* a choice taken from the line as typed
strip_none(s) == s

strip(s) == rstrip(lstrip(s))

\* the script ends
Ends(how) == status' = how /\ pc' = "ended"

\* an exception that is logged and swallowed: the script goes on behind
\* the call of Part A
Propagates_swallowed(events, kind, site) ==
    /\ log' = log \o events \o <<Ev("raise", kind, <<site>>)>>
    /\ pc' = "after_part_a"
    /\ UNCHANGED status

\* an exception leaves the script through every frame
Propagates(events, kind, site) ==
    /\ log' = log \o events \o <<Ev("raise", kind, <<site>>)>>
    /\ Ends("traceback")

(***************************************************************************)
(* run_all.py up to the menu.                                              *)
(***************************************************************************)
required == <<"pycalphad", "numpy", "matplotlib", "scipy", "pandas">>
Packages == {required[i] : i \in 1..Len(required)}

\* the packages whose import raises ImportError, in the order tried
Missing(inst) == SelectSeq(required, LAMBDA package : package \notin inst)

\* the lines a user may type, and what standard input may hold: nothing
\* (end of file), a line, or a line followed by another
Lines == { <<"1">>, <<"2">>, <<"3">>, <<"4">>, <<"5">>, <<"x">>, <<>>,
           <<" ", "3", " ">>, <<"\t", "1">>, <<"1", "2">>, <<"3", " ", "3">> }
Stdins == {<<>>} \cup {<<l>> : l \in Lines} \cup {<<l, <<"2">>>> : l \in Lines}

\* the local variables of part_a_carbon_steel.main
LocNames == {"db", "eq_a1", "eq_a2", "critical_points", "fits", "W_eut",
             "W_hypo", "W_hyper", "steel_df"}

InitRunAll ==
    /\ call = Pending("none", <<>>)
    /\ sum_impl = "naive"
    /\ script = "run_all"
    /\ pc = "check_dependencies"
    /\ status = "running"
    /\ installed \in SUBSET Packages
    /\ stdin \in Stdins
    /\ choice = NoChoice
    /\ fs \in { [f \in {"fe_c.tdb", "fe_cr_c.tdb"} |->
                    IF f = "fe_c.tdb" THEN a ELSE b] :
                a \in Contents(create_simple_fec_database),
                b \in {Absent, create_fecrc_database} }
    /\ log = <<>>
    /\ loc = [n \in LocNames |-> Unset]
    /\ results = <<>>
    /\ caught = {}

\* a dependency check without its try block
CheckDependencies_unguarded ==
    /\ script = "run_all"
    /\ pc = "check_dependencies"
    /\ status = "running"
    /\ IF Missing(installed) # <<>>
       THEN Propagates(<<Ev("call", "check_dependencies", <<>>)>>, "import",
                       "check_dependencies")
       ELSE /\ log' = log \o <<Ev("call", "check_dependencies", <<>>)>>
            /\ pc' = "import"
            /\ UNCHANGED status
    /\ UNCHANGED <<utilVars, script, installed, stdin, choice, fs, loc,
                   results, caught>>

\* a loop over the required packages that breaks at the first one missing
Attempts_until_missing(inst) ==
    [i \in 1..(IF \E k \in 1..Len(required) : required[k] \notin inst
               THEN CHOOSE k \in 1..Len(required) :
                      /\ required[k] \notin inst
                      /\ \A h \in 1..(k - 1) : required[h] \in inst
               ELSE Len(required)) |->
        Ev("__import__", required[i], <<required[i] \in inst>>)]

\* the loop of check_dependencies: __import__(package) for every required
\* package in turn, whether it is found or not
Attempts(inst) ==
    [i \in 1..Len(required) |->
        Ev("__import__", required[i], <<required[i] \in inst>>)]

\* run_all.main, the banner and the dependency gate: check_dependencies
\* tries every package, catches the ImportError of each missing one and
\* returns whether none was missing; main exits with status 1 if not
CheckDependencies ==
    /\ script = "run_all"
    /\ pc = "check_dependencies"
    /\ status = "running"
    /\ log' = log \o <<Ev("call", "check_dependencies", <<>>)>>
                  \o Attempts(installed)
                  \o <<Ev("return", "check_dependencies",
                          <<Missing(installed) = <<>> >>)>>
                  \o IF Missing(installed) # <<>>
                     THEN <<Ev("print",
                               "Please install dependencies before continuing.",
                               <<>>)>>
                     ELSE <<>>
    /\ caught' = IF Missing(installed) # <<>>
                 THEN caught \cup {Caught("import", "check_dependencies")}
                 ELSE caught
    /\ IF Missing(installed) # <<>>
       THEN Ends("exit1")
       ELSE pc' = "import" /\ UNCHANGED status
    /\ UNCHANGED <<utilVars, script, installed, stdin, choice, fs, loc,
                   results>>

\* import part_a_carbon_steel, part_b_simplified: either module may fail
\* to load (an import of its own, os.makedirs)
ImportParts ==
    /\ script = "run_all"
    /\ pc = "import"
    /\ status = "running"
    /\ \/ /\ log' = log \o <<Ev("import", "part_a_carbon_steel", <<>>),
                             Ev("import", "part_b_simplified", <<>>)>>
          /\ pc' = "menu"
          /\ UNCHANGED status
       \/ Propagates(<<>>, "import", "part_a_carbon_steel")
       \/ Propagates(<<Ev("import", "part_a_carbon_steel", <<>>)>>,
                     "import", "part_b_simplified")
    /\ UNCHANGED <<utilVars, script, installed, stdin, choice, fs, loc,
                   results, caught>>

\* the menu and choice = input(...).strip()
ReadChoice ==
    /\ script = "run_all"
    /\ pc = "menu"
    /\ status = "running"
    /\ IF stdin = <<>>
       THEN /\ Propagates(<<Ev("print", "Select Analysis", <<>>),
                            Ev("input", "eof", <<>>)>>, "input", "run_all.main")
            /\ UNCHANGED <<stdin, choice>>
       ELSE /\ log' = log \o <<Ev("print", "Select Analysis", <<>>),
                               Ev("input", "line", <<Head(stdin)>>)>>
            /\ choice' = strip(Head(stdin))
            /\ stdin' = Tail(stdin)
            /\ pc' = "dispatch"
            /\ UNCHANGED status
    /\ UNCHANGED <<utilVars, script, installed, fs, loc, results, caught>>

\* the if/elif chain on choice, up to the call of the first part
Dispatch ==
    /\ script = "run_all"
    /\ pc = "dispatch"
    /\ status = "running"
    /\ IF choice = <<"1">>
       THEN /\ log' = log \o <<Ev("print", "Running Part A: Carbon Steel Design", <<>>),
                               Ev("call", "part_a_carbon_steel.main", <<>>)>>
            /\ pc' = "load_database"
            /\ UNCHANGED status
       ELSE IF choice = <<"2">>
       THEN /\ log' = log \o <<Ev("print", "Running Part B: Stainless Steel Design", <<>>),
                               Ev("call", "part_b_simplified.main", <<>>)>>
            /\ pc' = "plot_binary_fe_cr_c_schematic"
            /\ UNCHANGED status
       ELSE IF choice = <<"3">>
       THEN /\ log' = log \o <<Ev("print", "Running Complete Project", <<>>),
                               Ev("call", "part_a_carbon_steel.main", <<>>)>>
            /\ pc' = "load_database"
            /\ UNCHANGED status
       ELSE IF choice = <<"4">>
       THEN /\ log' = log \o <<Ev("print", "Exiting...", <<>>)>>
            /\ Ends("exit0")
       ELSE /\ log' = log \o <<Ev("print", "Invalid choice. Please run again.", <<>>)>>
            /\ Ends("exit1")
    /\ UNCHANGED <<utilVars, script, installed, stdin, choice, fs, loc,
                   results, caught>>

(***************************************************************************)
(* part_a_carbon_steel.py.  A procedure is called, computes, and performs  *)
(* its external operations (the equilibrium solver, the plot, the file     *)
(* writes) in the order of its code; each of them may raise, and nothing   *)
(* in Part A catches.                                                      *)
(***************************************************************************)
\* One procedure of a main(): called with args, it computes ret (a value
\* returned or an exception raised), performs ops unless one of them raises,
\* and returns to main, which binds target (if the result is bound at all)
\* and moves on to next
Step(proc, args, ret, ops, target, next) ==
    /\ status = "running"
    /\ pc = proc
    /\ IF ret.exc # "none"
       THEN /\ Propagates(<<Ev("call", proc, args)>>, ret.exc, proc)
            /\ UNCHANGED loc
       ELSE \E f \in 0..Len(ops) :
              IF f = 0
              THEN /\ log' = log \o <<Ev("call", proc, args)>> \o ops
                   /\ loc' = IF target \in DOMAIN loc
                             THEN [loc EXCEPT ![target] = Val(proc, ret.val)]
                             ELSE loc
                   /\ pc' = next
                   /\ UNCHANGED status
              ELSE /\ Propagates(<<Ev("call", proc, args)>>
                                    \o SubSeq(ops, 1, f - 1), ops[f].ev, proc)
                   /\ UNCHANGED loc
    /\ UNCHANGED <<utilVars, script, installed, stdin, choice, fs, results, caught>>

\* a save_plot that saves the figure in the working directory
save_plot_cwd(filename) == Ev("savefig", "", <<Path(".", filename)>>)

\* save_plot(fig, filename) and df.to_csv(path)
save_plot(filename) == Ev("savefig", "", <<Path("outputs", filename)>>)
to_csv(filename) == Ev("to_csv", "", <<Path("outputs", filename)>>)

\* load_database and load_fecrc_database: the file is written if it is not
\* there, and the database is read from it
Load(proc, db_file, generated, next) ==
    /\ status = "running"
    /\ pc = proc
    /\ \E o \in LoadOutcomes(fs[db_file], generated) :
         /\ fs' = [fs EXCEPT ![db_file] = o.content]
         /\ IF o.exc = "none"
            THEN /\ log' = log \o <<Ev("call", proc, <<>>)>>
                 /\ loc' = [loc EXCEPT !["db"] = Val(proc, o.db)]
                 /\ pc' = next
                 /\ UNCHANGED status
            ELSE /\ Propagates(<<Ev("call", proc, <<>>)>>, o.exc, proc)
                 /\ UNCHANGED loc
    /\ UNCHANGED <<utilVars, script, installed, stdin, choice, results, caught>>

LoadDatabase ==
    Load("load_database", "fe_c.tdb", create_simple_fec_database,
         "plot_phase_diagram_a1")

\* a phase list handed on as requested
InDatabase_unfiltered(phases, db) == phases

\* [p for p in phases if p in db.phases]
InDatabase(phases, db) == SelectSeq(phases, LAMBDA p : p \in db)

\* the phases plot_phase_diagram_a1 and plot_phase_diagram_a2 ask for
phases_a1 == <<"LIQUID", "BCC_A2", "FCC_A1", "CEMENTITE", "GRAPHITE">>
phases_a2 == <<"LIQUID", "BCC_A2", "FCC_A1", "CEMENTITE">>

\* a phase diagram: the solver, eqplot and the figure
PhaseDiagram(phases, filename) ==
    << Ev("equilibrium", "", <<phases>>), Ev("eqplot", "", <<>>),
       save_plot(filename) >>

\* a main that hands the first phase diagram to find_critical_points and
\* the critical points to the steel series as well
ArgsOf_more(proc) ==
    CASE proc \in {"plot_phase_diagram_a1", "plot_phase_diagram_a2"} ->
            <<loc["db"]>>
      [] proc = "find_critical_points" -> <<loc["eq_a1"]>>
      [] proc \in {"analyze_eutectoid_steel", "analyze_hypoeutectoid_steel",
                   "analyze_hypereutectoid_steel", "analyze_steel_series"} ->
            << Val(loc["critical_points"].by, loc["critical_points"].val[3]),
               Val(loc["critical_points"].by, loc["critical_points"].val[4]) >>
      [] OTHER -> <<>>

\* a main that hands the first phase diagram to find_critical_points
ArgsOf_first_diagram(proc) ==
    CASE proc \in {"plot_phase_diagram_a1", "plot_phase_diagram_a2"} ->
            <<loc["db"]>>
      [] proc = "find_critical_points" -> <<loc["eq_a1"]>>
      [] proc \in {"analyze_eutectoid_steel", "analyze_hypoeutectoid_steel",
                   "analyze_hypereutectoid_steel"} ->
            << Val(loc["critical_points"].by, loc["critical_points"].val[3]),
               Val(loc["critical_points"].by, loc["critical_points"].val[4]) >>
      [] OTHER -> <<>>

\* what main passes to each procedure
ArgsOf(proc) ==
    CASE proc \in {"plot_phase_diagram_a1", "plot_phase_diagram_a2"} ->
            <<loc["db"]>>
      [] proc = "find_critical_points" -> <<loc["eq_a2"]>>
      [] proc \in {"analyze_eutectoid_steel", "analyze_hypoeutectoid_steel",
                   "analyze_hypereutectoid_steel"} ->
            << Val(loc["critical_points"].by, loc["critical_points"].val[3]),
               Val(loc["critical_points"].by, loc["critical_points"].val[4]) >>
      [] OTHER -> <<>>

PlotPhaseDiagramA1 ==
    Step("plot_phase_diagram_a1", ArgsOf("plot_phase_diagram_a1"),
         Returned(InDatabase(phases_a1, loc["db"].val)),
         PhaseDiagram(InDatabase(phases_a1, loc["db"].val),
                      "A1_phase_diagram_with_graphite.png"),
         "eq_a1", "plot_phase_diagram_a2")

PlotPhaseDiagramA2 ==
    Step("plot_phase_diagram_a2", ArgsOf("plot_phase_diagram_a2"),
         Returned(InDatabase(phases_a2, loc["db"].val)),
         PhaseDiagram(InDatabase(phases_a2, loc["db"].val),
                      "A2_phase_diagram_without_graphite.png"),
         "eq_a2", "find_critical_points")

\* find_critical_points(eq): the critical points are literals of the code
T_eutectic == 1420
C_eutectic == FromRat(43, 10)
T_eutectoid == 1000
C_eutectoid == FromRat(76, 100)

find_critical_points(eq) ==
    Returned(<<T_eutectic, C_eutectic, T_eutectoid, C_eutectoid>>)

FindCriticalPoints ==
    Step("find_critical_points", ArgsOf("find_critical_points"),
         find_critical_points(ArgsOf("find_critical_points")[1].val),
         << save_plot("A3_eutectic_analysis.png"),
            save_plot("A4_eutectoid_analysis.png"),
            to_csv("A3_A4_critical_points.csv") >>,
         "critical_points", "fit_austenite_boundaries")

\* fit_austenite_boundaries(): two fits of literal data and a figure
FitAusteniteBoundaries ==
    Step("fit_austenite_boundaries", ArgsOf("fit_austenite_boundaries"),
         Returned(<<"low_fit", "high_fit">>),
         << Ev("curve_fit", "low", <<>>), Ev("curve_fit", "high", <<>>),
            save_plot("A5_austenite_boundary_fits.png") >>,
         "fits", "analyze_eutectoid_steel")

\* the literals of the microstructure analyses
C_ferrite == FromRat(2, 100)
C_cementite == FromRat(669, 100)
C_overall_hypo == FromRat(52, 100)
W_eutectoid_cementite == FromRat(103, 1000)
Hundred == FromRat(100, 1)

\* analyze_eutectoid_steel(T_eutectoid, C_eutectoid)
analyze_eutectoid_steel(T, C) == lever_rule(C, C_ferrite, C_cementite)

\* analyze_hypoeutectoid_steel, once the two lever rules are evaluated
HypoFractions(above, below) ==
    IF above.exc # "none" THEN above
    ELSE IF below.exc # "none" THEN below
    ELSE Returned(<<above.val[1], FSub(below.val[1], above.val[1]),
                    below.val[2]>>)

\* analyze_hypoeutectoid_steel(T_eutectoid, C_eutectoid)
analyze_hypoeutectoid_steel(T, C) ==
    HypoFractions(lever_rule(C_overall_hypo, C_ferrite, C),
                  lever_rule(C_overall_hypo, C_ferrite, C_cementite))

\* analyze_hypereutectoid_steel, backwards: the room temperature lever rule
\* and the return, the overall carbon content, the pearlite fraction
HyperReturn(room, C_overall, W_pearlite) ==
    IF room.exc # "none" THEN room ELSE Returned(<<C_overall, W_pearlite>>)

HyperRoom(C_overall, W_pearlite) ==
    HyperReturn(lever_rule(C_overall, C_ferrite, C_cementite), C_overall,
                W_pearlite)

HyperOverall(C, W_pearlite) ==
    HyperRoom(FAdd(FMul(FSub(One, W_pearlite), FSub(C_cementite, C)), C),
              W_pearlite)

HyperPearlite(C, in_pearlite) ==
    IF in_pearlite.exc # "none" THEN in_pearlite
    ELSE IF in_pearlite.val[2] = Zero THEN Raised("ZeroDivisionError")
    ELSE HyperOverall(C, FDiv(W_eutectoid_cementite, in_pearlite.val[2]))

\* analyze_hypereutectoid_steel(T_eutectoid, C_eutectoid)
analyze_hypereutectoid_steel(T, C) ==
    HyperPearlite(C, lever_rule(C, C_ferrite, C_cementite))

\* analyze_steel_series(): the steels of the series and one row of its table
carbon_contents ==
    << Zero, FromRat(2, 10), FromRat(4, 10), FromRat(6, 10), FromRat(8, 10),
       One >>
C_eutectoid_a9 == FromRat(76, 100)

\* W_austenite of the hypoeutectoid branch
SecondOf(r) == IF r.exc # "none" THEN r ELSE Returned(r.val[2])

\* a pearlite fraction that uses the hypoeutectoid lever on both sides of
\* the eutectoid
Pearlite_lever_only(C) ==
    SecondOf(lever_rule(C, C_ferrite, C_eutectoid_a9))

\* the pearlite fraction of a steel of the series
Pearlite(C) ==
    IF FLt(C, C_eutectoid_a9)
    THEN SecondOf(lever_rule(C, C_ferrite, C_eutectoid_a9))
    ELSE IF FLt(C_eutectoid_a9, C)
    THEN IF FSub(C_cementite, C_eutectoid_a9) = Zero
         THEN Raised("ZeroDivisionError")
         ELSE Returned(FSub(One, FDiv(FSub(C, C_eutectoid_a9),
                                      FSub(C_cementite, C_eutectoid_a9))))
    ELSE Returned(One)

\* results.append({...}) once both fractions are known
RowOf(C, total, W_pearlite) ==
    IF total.exc # "none" THEN total
    ELSE IF W_pearlite.exc # "none" THEN W_pearlite
    ELSE Returned(<<C, FMul(total.val[2], Hundred),
                    FMul(W_pearlite.val, Hundred)>>)

SeriesRow(C) == RowOf(C, lever_rule(C, C_ferrite, C_cementite), Pearlite(C))

\* the table, unless a row raised
TableOf(rows) ==
    IF \E i \in 1..Len(rows) : rows[i].exc # "none"
    THEN Raised("ZeroDivisionError")
    ELSE Returned([i \in 1..Len(rows) |-> rows[i].val])

analyze_steel_series ==
    TableOf([i \in 1..Len(carbon_contents) |-> SeriesRow(carbon_contents[i])])

(***************************************************************************)
(* The loop body of analyze_steel_series on its own: the pearlite          *)
(* fraction for carbon contents other than the six of the series.  Two     *)
(* contents are evaluated by one call, as two iterations of the loop.      *)
(***************************************************************************)
CarbonTenths == 20    \* carbon contents k/10 wt%, k in 0..CarbonTenths

CarbonGrid ==
    {FromRat(k, 10) : k \in 0..CarbonTenths} \cup {C_ferrite, C_eutectoid_a9}

\* W_pearlite of two iterations, unless one of them raised
PearliteOfBoth(first, second) ==
    IF first.exc # "none" THEN first
    ELSE IF second.exc # "none" THEN second
    ELSE Returned(<<first.val, second.val>>)

SeriesCalls ==
    {Pending("analyze_steel_series", <<C1, C2>>) :
        C1 \in CarbonGrid, C2 \in CarbonGrid}

InitSeries ==
    /\ call \in SeriesCalls
    /\ sum_impl = "naive"
    /\ NoScript

CallSeriesLoop ==
    /\ call.fn = "analyze_steel_series"
    /\ call.state = "pending"
    /\ call' = [call EXCEPT !.state = "returned",
                            !.res = PearliteOfBoth(Pearlite(call.args[1]),
                                                   Pearlite(call.args[2]))]
    /\ UNCHANGED <<sum_impl, progVars>>

NextSeries == CallSeriesLoop

SpecSeries == InitSeries /\ [][NextSeries]_vars

AnalyzeEutectoidSteel ==
    Step("analyze_eutectoid_steel", ArgsOf("analyze_eutectoid_steel"),
         analyze_eutectoid_steel(ArgsOf("analyze_eutectoid_steel")[1].val,
                                 ArgsOf("analyze_eutectoid_steel")[2].val),
         <<save_plot("A6_eutectoid_steel.png")>>,
         "W_eut", "analyze_hypoeutectoid_steel")

\* an analyze_hypoeutectoid_steel that saves a figure of its own
AnalyzeHypoeutectoidSteel_plots ==
    Step("analyze_hypoeutectoid_steel", ArgsOf("analyze_hypoeutectoid_steel"),
         analyze_hypoeutectoid_steel(
             ArgsOf("analyze_hypoeutectoid_steel")[1].val,
             ArgsOf("analyze_hypoeutectoid_steel")[2].val),
         <<save_plot("A7_hypoeutectoid_steel.png")>>,
         "W_hypo", "analyze_hypereutectoid_steel")

AnalyzeHypoeutectoidSteel ==
    Step("analyze_hypoeutectoid_steel", ArgsOf("analyze_hypoeutectoid_steel"),
         analyze_hypoeutectoid_steel(
             ArgsOf("analyze_hypoeutectoid_steel")[1].val,
             ArgsOf("analyze_hypoeutectoid_steel")[2].val),
         <<>>, "W_hypo", "analyze_hypereutectoid_steel")

AnalyzeHypereutectoidSteel ==
    Step("analyze_hypereutectoid_steel", ArgsOf("analyze_hypereutectoid_steel"),
         analyze_hypereutectoid_steel(
             ArgsOf("analyze_hypereutectoid_steel")[1].val,
             ArgsOf("analyze_hypereutectoid_steel")[2].val),
         <<>>, "W_hyper", "analyze_steel_series")

AnalyzeSteelSeries ==
    Step("analyze_steel_series", ArgsOf("analyze_steel_series"),
         analyze_steel_series,
         << to_csv("A9_steel_properties.csv"),
            save_plot("A9_steel_microstructure_vs_carbon.png") >>,
         "steel_df", "part_a_complete")

\* the end of part_a_carbon_steel.main
PartAComplete ==
    /\ status = "running"
    /\ pc = "part_a_complete"
    /\ log' = log \o <<Ev("print", "PART A COMPLETE", <<>>),
                       Ev("return", "part_a_carbon_steel.main", <<>>)>>
    /\ pc' = "after_part_a"
    /\ UNCHANGED <<utilVars, script, status, installed, stdin, choice, fs,
                   loc, results, caught>>

\* a menu whose choice '3' stops after Part A
AfterPartA_stops ==
    /\ script = "run_all"
    /\ status = "running"
    /\ pc = "after_part_a"
    /\ Ends("done")
    /\ UNCHANGED <<utilVars, script, installed, stdin, choice, fs, log, loc,
                   results, caught>>

\* run_all.main once Part A has returned: the end of the script for
\* choice '1', the call of Part B for choice '3'
AfterPartA ==
    /\ script = "run_all"
    /\ status = "running"
    /\ pc = "after_part_a"
    /\ IF choice = <<"3">>
       THEN /\ log' = log \o <<Ev("call", "part_b_simplified.main", <<>>)>>
            /\ pc' = "plot_binary_fe_cr_c_schematic"
            /\ UNCHANGED status
       ELSE /\ Ends("done")
            /\ UNCHANGED log
    /\ UNCHANGED <<utilVars, script, installed, stdin, choice, fs, loc,
                   results, caught>>

(***************************************************************************)
(* part_b_simplified.py, the Part B that run_all imports: two schematic    *)
(* figures with their tables, no solver and no database.                   *)
(***************************************************************************)
PlotBinaryFeCrCSchematic ==
    Step("plot_binary_fe_cr_c_schematic", <<>>, Returned(<<>>),
         << save_plot("B1_Fe12.5Cr_XC_phase_diagram.png"),
            to_csv("B1_phase_diagram_data.csv") >>,
         "", "plot_ternary_fe_cr_c")

\* a ternary analysis that writes its table over the table of B1
PlotTernaryFeCrC_overwrites ==
    Step("plot_ternary_fe_cr_c", <<>>, Returned(<<>>),
         << save_plot("B2_Fe_Cr_C_ternary_diagram.png"),
            to_csv("B1_phase_diagram_data.csv") >>,
         "", "part_b_complete")

PlotTernaryFeCrC ==
    Step("plot_ternary_fe_cr_c", <<>>, Returned(<<>>),
         << save_plot("B2_Fe_Cr_C_ternary_diagram.png"),
            to_csv("B2_ternary_compositions.csv") >>,
         "", "part_b_complete")

\* the end of part_b_simplified.main
PartBComplete ==
    /\ status = "running"
    /\ pc = "part_b_complete"
    /\ log' = log \o <<Ev("print", "PART B COMPLETE", <<>>),
                       Ev("return", "part_b_simplified.main", <<>>)>>
    /\ pc' = "after_part_b"
    /\ UNCHANGED <<utilVars, script, status, installed, stdin, choice, fs,
                   loc, results, caught>>

\* run_all.main once Part B has returned: the closing banner for choice '3'
AfterPartB ==
    /\ script = "run_all"
    /\ status = "running"
    /\ pc = "after_part_b"
    /\ log' = IF choice = <<"3">>
              THEN log \o
                     << Ev("print", "PROJECT COMPLETE", <<>>),
                        Ev("print", "All calculations finished successfully!",
                           <<>>) >>
              ELSE log
    /\ Ends("done")
    /\ UNCHANGED <<utilVars, script, installed, stdin, choice, fs, loc,
                   results, caught>>

PartA ==
    \/ LoadDatabase
    \/ PlotPhaseDiagramA1
    \/ PlotPhaseDiagramA2
    \/ FindCriticalPoints
    \/ FitAusteniteBoundaries
    \/ AnalyzeEutectoidSteel
    \/ AnalyzeHypoeutectoidSteel
    \/ AnalyzeHypereutectoidSteel
    \/ AnalyzeSteelSeries
    \/ PartAComplete

PartBSimplified ==
    \/ PlotBinaryFeCrCSchematic
    \/ PlotTernaryFeCrC
    \/ PartBComplete

Next ==
    \/ CheckDependencies
    \/ ImportParts
    \/ ReadChoice
    \/ Dispatch
    \/ PartA
    \/ AfterPartA
    \/ PartBSimplified
    \/ AfterPartB

\* python run_all.py
Spec == InitRunAll /\ [][Next]_vars

(***************************************************************************)
(* part_b_stainless_steel.py run as a script: the Part B that calls the    *)
(* equilibrium solver.  The solver and the reading of its result are       *)
(* external: at every point they return a result or raise.                 *)
(***************************************************************************)
\* the grid of plot_binary_at_fixed_cr, carbon contents outside and
\* temperatures inside; the model walks the first NCarbon carbon contents
\* and the first NTemp temperatures of the lists
NCarbon == 2
NTemp == 2
c_wts ==
    << Zero, FromRat(5, 10), One, FromRat(15, 10), FromRat(2, 1),
       FromRat(25, 10), FromRat(3, 1), FromRat(35, 10), FromRat(4, 1),
       FromRat(45, 10), FromRat(5, 1) >>
temps == <<1000, 1100, 1200, 1300, 1350, 1400, 1500, 1525, 1600, 1700, 1800>>
GridPoints == NCarbon * NTemp
CarbonAt(k) == c_wts[((k - 1) \div NTemp) + 1]
TempAt(k) == temps[((k - 1) % NTemp) + 1]

phases_b == <<"LIQUID", "BCC_A2", "FCC_A1", "CEMENTITE", "M23C6", "M7C3", "M3C">>

\* The result of the solver is a row of vertices, each a phase name (a
\* sequence of characters, here the name or a blank as one character each,
\* empty for an unused vertex) and a phase fraction in units of 1e-7, NaN
\* for an unused vertex.
NaN == 0 - 1
Threshold == 10
Equilibria ==
    { << << <<"FCC_A1">>, 6000000 >>, << <<" ", "M23C6">>, 4000000 >>,
         << <<"BCC_A2">>, Threshold >>, << <<>>, NaN >> >>,
      << << <<>>, NaN >>, << <<"LIQUID", " ">>, 0 >> >> }

\* what equilibrium(...) and the reading of eq.Phase and eq.NP can do
SolverOutcomes ==
    {Raised("equilibrium"), Raised("extract")}
        \cup {Returned(eq) : eq \in Equilibria}

\* a comparison that lets a fraction of exactly 1e-6 pass
Significant_at_least(np) == np # NaN /\ np >= Threshold

\* np_array[i] > 1e-6, false for NaN
Significant(np) == np # NaN /\ np > Threshold

\* the vertices that pass "phase_name and phase_name != '' and
\* np_array[i] > 1e-6", and their stripped names
Present(eq) ==
    SelectSeq(eq, LAMBDA vertex :
                      strip(vertex[1]) # <<>> /\ Significant(vertex[2]))
phase_names(eq) == [i \in 1..Len(Present(eq)) |-> strip(Present(eq)[i][1])[1]]

\* the row appended for a grid point: <<T_K, C_wt%, phases>>, phases being
\* the names that '+'.join puts together, or a sentinel
BinaryRow(T, c_wt, outcome) ==
    IF outcome.exc # "none"
    THEN <<T, c_wt, <<"ERROR">>>>
    ELSE <<T, c_wt, IF phase_names(outcome.val) # <<>>
                    THEN phase_names(outcome.val)
                    ELSE <<"NONE">>>>

\* the local variables of part_b_stainless_steel.main
LocNamesB == {"db", "df_b1", "df_b2"}

InitStainless ==
    /\ call = Pending("none", <<>>)
    /\ sum_impl = "naive"
    /\ script = "part_b_stainless_steel"
    /\ pc = "import_stainless"
    /\ status = "running"
    /\ installed \in SUBSET Packages
    /\ stdin = <<>>
    /\ choice = NoChoice
    /\ fs \in { [f \in {"fe_c.tdb", "fe_cr_c.tdb"} |->
                    IF f = "fe_c.tdb" THEN a ELSE b] :
                a \in {Absent, create_simple_fec_database},
                b \in Contents(create_fecrc_database) }
    /\ log = <<>>
    /\ loc = [n \in LocNamesB |-> Unset]
    /\ results = <<>>
    /\ caught = {}

\* the imports and os.makedirs at the top of the module, then main()
ImportStainless ==
    /\ script = "part_b_stainless_steel"
    /\ pc = "import_stainless"
    /\ status = "running"
    /\ IF Missing(installed) # <<>>
       THEN Propagates(<<>>, "import", "part_b_stainless_steel")
       ELSE \/ Propagates(<<>>, "makedirs", "part_b_stainless_steel")
            \/ /\ log' = log \o <<Ev("call", "part_b_stainless_steel.main",
                                     <<>>)>>
               /\ pc' = "load_fecrc_database"
               /\ UNCHANGED status
    /\ UNCHANGED <<utilVars, script, installed, stdin, choice, fs, loc,
                   results, caught>>

LoadFecrcDatabase ==
    Load("load_fecrc_database", "fe_cr_c.tdb", create_fecrc_database,
         "plot_binary_at_fixed_cr")

\* plot_binary_at_fixed_cr up to the loop: the phases asked of the solver
\* are those of the list that the database defines
PlotBinaryAtFixedCr ==
    /\ status = "running"
    /\ pc = "plot_binary_at_fixed_cr"
    /\ log' = log \o <<Ev("call", "plot_binary_at_fixed_cr", <<loc["db"]>>),
                       Ev("print", "Phases included",
                          <<InDatabase(phases_b, loc["db"].val)>>)>>
    /\ results' = <<>>
    /\ pc' = "binary_grid"
    /\ UNCHANGED <<utilVars, script, status, installed, stdin, choice, fs,
                   loc, caught>>

\* a loop body whose try block lets the exception through
BinaryGridPoint_propagates ==
    /\ status = "running"
    /\ pc = "binary_grid"
    /\ Len(results) < GridPoints
    /\ \E outcome \in SolverOutcomes :
         IF outcome.exc # "none"
         THEN /\ Propagates(<<>>, outcome.exc, "plot_binary_at_fixed_cr")
              /\ UNCHANGED results
         ELSE /\ results' = Append(results,
                                   BinaryRow(TempAt(Len(results) + 1),
                                             CarbonAt(Len(results) + 1),
                                             outcome))
              /\ UNCHANGED <<pc, status, log>>
    /\ UNCHANGED <<utilVars, script, installed, stdin, choice, fs, loc,
                   caught>>

\* one pass of the loop body of plot_binary_at_fixed_cr: the try block calls
\* the solver and reads its result, and either branch appends one row
BinaryGridPoint ==
    /\ status = "running"
    /\ pc = "binary_grid"
    /\ Len(results) < GridPoints
    /\ \E outcome \in SolverOutcomes :
         /\ results' = Append(results,
                              BinaryRow(TempAt(Len(results) + 1),
                                        CarbonAt(Len(results) + 1), outcome))
         /\ caught' = IF outcome.exc # "none"
                      THEN caught \cup {Caught(outcome.exc,
                                               "plot_binary_at_fixed_cr")}
                      ELSE caught
    /\ UNCHANGED <<utilVars, script, pc, status, installed, stdin, choice,
                   fs, log, loc>>

\* The end of a tabulating procedure: the table and the figure are written
\* in the order of ops, and the table is returned to main, which binds it
\* to target and never reads it
Finish(proc, at, ops, target, next) ==
    /\ status = "running"
    /\ pc = at
    /\ \E f \in 0..Len(ops) :
         IF f = 0
         THEN /\ log' = log \o ops
              /\ loc' = [loc EXCEPT ![target] = Val(proc, "DataFrame")]
              /\ results' = <<>>
              /\ pc' = next
              /\ UNCHANGED status
         ELSE /\ Propagates(SubSeq(ops, 1, f - 1), ops[f].ev, proc)
              /\ UNCHANGED <<loc, results>>
    /\ UNCHANGED <<utilVars, script, installed, stdin, choice, fs, caught>>

\* plot_binary_at_fixed_cr after the loop
BinaryFinish ==
    /\ Len(results) = GridPoints
    /\ Finish("plot_binary_at_fixed_cr", "binary_grid",
              << to_csv("B1_phase_diagram_data.csv"),
                 save_plot("B1_Fe12.5Cr_XC_phase_diagram.png") >>,
              "df_b1", "plot_ternary_diagram")

\* plot_ternary_diagram up to the loop
PlotTernaryDiagram ==
    /\ status = "running"
    /\ pc = "plot_ternary_diagram"
    /\ log' = log \o <<Ev("call", "plot_ternary_diagram", <<loc["db"]>>),
                       Ev("print", "Phases",
                          <<InDatabase(phases_b, loc["db"].val)>>)>>
    /\ results' = <<>>
    /\ pc' = "ternary_compositions"
    /\ UNCHANGED <<utilVars, script, status, installed, stdin, choice, fs,
                   loc, caught>>

compositions ==
    <<"Fe-15.0Cr-0.01C", "Fe-15.0Cr-0.70C", "Fe-20.0Cr-0.20C",
      "Fe-15.0Cr-3.0C">>

\* the row appended for a composition: <<Composition, Phases, Count>>
TernaryRow(name, outcome) ==
    IF outcome.exc # "none"
    THEN <<name, <<"Calculation error - use phase diagram">>, 0>>
    ELSE <<name, IF phase_names(outcome.val) # <<>>
                 THEN phase_names(outcome.val)
                 ELSE <<"Single phase">>,
           Len(phase_names(outcome.val))>>

\* One pass of the loop body of plot_ternary_diagram.  The outer try block
\* is that of the binary diagram; inside it, the composition of each phase
\* present is read under a bare except, which appends the same text
\* whether the reading raised or not.
TernaryComposition ==
    /\ status = "running"
    /\ pc = "ternary_compositions"
    /\ Len(results) < Len(compositions)
    /\ \E outcome \in SolverOutcomes : \E reading_raises \in BOOLEAN :
         /\ reading_raises =>
              outcome.exc = "none" /\ phase_names(outcome.val) # <<>>
         /\ results' = Append(results,
                              TernaryRow(compositions[Len(results) + 1],
                                         outcome))
         /\ caught' =
              IF outcome.exc # "none"
              THEN caught \cup {Caught(outcome.exc, "plot_ternary_diagram")}
              ELSE IF reading_raises
              THEN caught \cup {Caught("composition", "plot_ternary_diagram")}
              ELSE caught
    /\ UNCHANGED <<utilVars, script, pc, status, installed, stdin, choice,
                   fs, log, loc>>

\* plot_ternary_diagram after the loop
TernaryFinish ==
    /\ Len(results) = Len(compositions)
    /\ Finish("plot_ternary_diagram", "ternary_compositions",
              << save_plot("B2_Fe_Cr_C_ternary_diagram.png"),
                 to_csv("B2_ternary_compositions.csv") >>,
              "df_b2", "summarize_findings")

\* summarize_findings() prints, and so does the end of main
SummarizeFindings ==
    /\ script = "part_b_stainless_steel"
    /\ status = "running"
    /\ pc = "summarize_findings"
    /\ log' = log \o <<Ev("call", "summarize_findings", <<>>),
                       Ev("print", "PART B COMPLETE", <<>>),
                       Ev("return", "part_b_stainless_steel.main", <<>>)>>
    /\ Ends("done")
    /\ UNCHANGED <<utilVars, script, installed, stdin, choice, fs, loc,
                   results, caught>>

NextStainless ==
    \/ ImportStainless
    \/ LoadFecrcDatabase
    \/ PlotBinaryAtFixedCr
    \/ BinaryGridPoint
    \/ BinaryFinish
    \/ PlotTernaryDiagram
    \/ TernaryComposition
    \/ TernaryFinish
    \/ SummarizeFindings

\* python part_b_stainless_steel.py
SpecStainless == InitStainless /\ [][NextStainless]_vars

(***************************************************************************)
(* test_setup.py: three tests, each catching what goes wrong in it, and    *)
(* an exit status.                                                         *)
(***************************************************************************)
LocNamesT == {"imports_ok", "pycalphad_ok", "plotting_ok"}

InitTestSetup ==
    /\ call = Pending("none", <<>>)
    /\ sum_impl = "naive"
    /\ script = "test_setup"
    /\ pc = "test_imports"
    /\ status = "running"
    /\ installed \in SUBSET Packages
    /\ stdin = <<>>
    /\ choice = NoChoice
    /\ fs = [f \in {"fe_c.tdb", "fe_cr_c.tdb"} |-> Absent]
    /\ log = <<>>
    /\ loc = [n \in LocNamesT |-> Unset]
    /\ results = <<>>
    /\ caught = {}

\* One test of test_setup: its try block imports needs and then performs
\* ops; the first of them that raises is caught and makes the test False
Test(proc, needs, ops, target, next) ==
    /\ script = "test_setup"
    /\ status = "running"
    /\ pc = proc
    /\ pc' = next
    /\ IF ~(needs \subseteq installed)
       THEN /\ caught' = caught \cup {Caught("import", proc)}
            /\ log' = log \o <<Ev("call", proc, <<>>)>>
            /\ loc' = [loc EXCEPT ![target] = Val(proc, FALSE)]
       ELSE \E f \in 0..Len(ops) :
              IF f = 0
              THEN /\ log' = log \o <<Ev("call", proc, <<>>)>> \o ops
                   /\ loc' = [loc EXCEPT ![target] = Val(proc, TRUE)]
                   /\ UNCHANGED caught
              ELSE /\ caught' = caught \cup {Caught(ops[f].ev, proc)}
                   /\ log' = log \o <<Ev("call", proc, <<>>)>>
                                 \o SubSeq(ops, 1, f - 1)
                   /\ loc' = [loc EXCEPT ![target] = Val(proc, FALSE)]
    /\ UNCHANGED <<utilVars, script, status, installed, stdin, choice, fs,
                   results>>

\* test_imports imports every package on its own
TestImports ==
    Test("test_imports", Packages, <<>>, "imports_ok", "test_pycalphad")

TestPycalphad ==
    Test("test_pycalphad", {"pycalphad", "numpy"},
         <<Ev("parse", "tdb_str", <<>>)>>, "pycalphad_ok", "test_plotting")

TestPlotting ==
    Test("test_plotting", {"matplotlib", "numpy"},
         << Ev("makedirs", "outputs", <<>>), save_plot("test_plot.png") >>,
         "plotting_ok", "exit")

\* main returns 0 if the three tests passed, 1 if not, and the script exits
\* with that
TestExit ==
    /\ script = "test_setup"
    /\ status = "running"
    /\ pc = "exit"
    /\ IF \A n \in LocNamesT : loc[n].val THEN Ends("exit0") ELSE Ends("exit1")
    /\ UNCHANGED <<utilVars, script, installed, stdin, choice, fs, log, loc,
                   results, caught>>

NextTestSetup ==
    \/ TestImports
    \/ TestPycalphad
    \/ TestPlotting
    \/ TestExit

(***************************************************************************)
(* generate_A6_A7_A8_figures.py: the figures of A7 and A8 and a text       *)
(* summary of A8.                                                          *)
(***************************************************************************)
\* with open('outputs/<filename>', 'w') as f: f.write(...)
write_text(filename) == Ev("write", "", <<Path("outputs", filename)>>)

InitFigures ==
    /\ call = Pending("none", <<>>)
    /\ sum_impl = "naive"
    /\ script = "generate_A6_A7_A8_figures"
    /\ pc = "import_figures"
    /\ status = "running"
    /\ installed \in SUBSET Packages
    /\ stdin = <<>>
    /\ choice = NoChoice
    /\ fs = [f \in {"fe_c.tdb", "fe_cr_c.tdb"} |-> Absent]
    /\ log = <<>>
    /\ loc = <<>>
    /\ results = <<>>
    /\ caught = {}

\* the imports at the top of the module (utils imports scipy), then the
\* banner and os.makedirs of the __main__ block
ImportFigures ==
    /\ script = "generate_A6_A7_A8_figures"
    /\ pc = "import_figures"
    /\ status = "running"
    /\ IF ~({"numpy", "matplotlib", "scipy"} \subseteq installed)
       THEN Propagates(<<>>, "import", "generate_A6_A7_A8_figures")
       ELSE \/ Propagates(<<Ev("print", "GENERATING A7 AND A8 FIGURES", <<>>)>>,
                          "makedirs", "generate_A6_A7_A8_figures")
            \/ /\ log' = log \o
                    << Ev("print", "GENERATING A7 AND A8 FIGURES", <<>>),
                       Ev("makedirs", "outputs", <<>>) >>
               /\ pc' = "create_A7_hypoeutectoid_figure"
               /\ UNCHANGED status
    /\ UNCHANGED <<utilVars, script, installed, stdin, choice, fs, loc,
                   results, caught>>

CreateA7HypoeutectoidFigure ==
    Step("create_A7_hypoeutectoid_figure", <<>>, Returned(<<>>),
         <<save_plot("A7_hypoeutectoid_steel.png")>>,
         "", "create_A8_hypereutectoid_figure")

CreateA8HypereutectoidFigure ==
    Step("create_A8_hypereutectoid_figure", <<>>, Returned(<<>>),
         << save_plot("A8_hypereutectoid_steel.png"),
            write_text("A8_hypereutectoid_summary.txt") >>,
         "", "figures_generated")

FiguresGenerated ==
    /\ script = "generate_A6_A7_A8_figures"
    /\ status = "running"
    /\ pc = "figures_generated"
    /\ log' = log \o <<Ev("print", "ALL FIGURES GENERATED SUCCESSFULLY!", <<>>)>>
    /\ Ends("done")
    /\ UNCHANGED <<utilVars, script, installed, stdin, choice, fs, loc,
                   results, caught>>

NextFigures ==
    \/ ImportFigures
    \/ CreateA7HypoeutectoidFigure
    \/ CreateA8HypereutectoidFigure
    \/ FiguresGenerated

\* any of the four scripts
InitScripts == InitRunAll \/ InitStainless \/ InitTestSetup \/ InitFigures
NextScripts == Next \/ NextStainless \/ NextTestSetup \/ NextFigures
SpecScripts == InitScripts /\ [][NextScripts]_vars

(***************************************************************************)
(* The two loaders called again and again, as by successive runs of the    *)
(* scripts in one working directory that starts out in any state.  A call  *)
(* that raises ends its run; the next run calls again.                     *)
(***************************************************************************)
MaxLoads == 3

InitLoads ==
    /\ call = Pending("none", <<>>)
    /\ sum_impl = "naive"
    /\ script = "loaders"
    /\ pc = "load"
    /\ status = "running"
    /\ installed = Packages
    /\ stdin = <<>>
    /\ choice = NoChoice
    /\ fs \in { [f \in {"fe_c.tdb", "fe_cr_c.tdb"} |->
                    IF f = "fe_c.tdb" THEN a ELSE b] :
                a \in Contents(create_simple_fec_database),
                b \in Contents(create_fecrc_database) }
    /\ log = <<>>
    /\ loc = [n \in {"db"} |-> Unset]
    /\ results = <<>>
    /\ caught = {}

\* one call of a loader: the log keeps the file, what it held before and
\* the outcome
LoadCall(proc, db_file, generated) ==
    /\ script = "loaders"
    /\ Len(log) < MaxLoads
    /\ \E o \in LoadOutcomes(fs[db_file], generated) :
         /\ fs' = [fs EXCEPT ![db_file] = o.content]
         /\ log' = Append(log, Ev("load", db_file, <<fs[db_file], o>>))
         /\ loc' = IF o.exc = "none"
                   THEN [loc EXCEPT !["db"] = Val(proc, o.db)]
                   ELSE loc
    /\ UNCHANGED <<utilVars, script, pc, status, installed, stdin, choice,
                   results, caught>>

CallLoadDatabase ==
    LoadCall("load_database", "fe_c.tdb", create_simple_fec_database)

CallLoadFecrcDatabase ==
    LoadCall("load_fecrc_database", "fe_cr_c.tdb", create_fecrc_database)

NextLoads == CallLoadDatabase \/ CallLoadFecrcDatabase

SpecLoads == InitLoads /\ [][NextLoads]_vars

(***************************************************************************)
(* A session: a caller holds a composition, the molar masses and three     *)
(* carbon contents in variables of its own and calls the utility functions *)
(* on them, one call after the other.                                      *)
(***************************************************************************)
MaxCalls == 3

\* the objects bound to the parameters when the call of fn returns, had the
\* function normalised its first dictionary in place
ArgumentsAfter_in_place(fn, args) ==
    IF fn = "wt_to_mole_fraction"
          /\ wt_to_mole_fraction(args[1], args[2]).exc = "none"
    THEN <<wt_to_mole_fraction(args[1], args[2]).val, args[2]>>
    ELSE args

\* the objects bound to the parameters when the call of fn returns: the
\* three functions build new dictionaries and floats and assign to no item
\* of an argument
ArgumentsAfter(fn, args) == args

\* the call fn(*args)
Apply(fn, args) ==
    CASE fn = "lever_rule" -> lever_rule(args[1], args[2], args[3])
      [] fn = "wt_to_mole_fraction" -> wt_to_mole_fraction(args[1], args[2])
      [] fn = "mole_to_wt_fraction" -> mole_to_wt_fraction(args[1], args[2])

\* the caller's variables a call of fn takes as arguments
ParametersOf(fn) ==
    IF fn = "lever_rule" THEN <<"overall", "left", "right">>
    ELSE <<"fractions", "molar_masses">>

\* compositions whose total is zero: no entry, or entries that are all 0.0
ZeroCompositions ==
    { <<>>, << <<"FE", Zero>> >>, << <<"FE", Zero>>, <<"C", Zero>> >> }

InitSession ==
    /\ call = Pending("none", <<>>)
    /\ sum_impl \in {"naive", "neumaier"}
    /\ script = "session"
    /\ pc = "idle"
    /\ status = "running"
    /\ installed = {}
    /\ stdin = <<>>
    /\ choice = NoChoice
    /\ fs = <<>>
    /\ log = <<>>
    /\ \E w \in Compositions(<<"FE", "C">>) \cup Compositions(<<"C", "CR", "FE">>)
                  \cup ZeroCompositions,
          M \in {<<<<"FE", FromRat(55845, 1000)>>, <<"CR", FromRat(51996, 1000)>>,
                   <<"C", FromRat(12011, 1000)>>>>,
                 <<<<"FE", FromRat(55845, 1000)>>, <<"C", Zero>>>>},
          l \in {FromRat(2, 100), FromRat(76, 100)} :
         loc = [n \in {"fractions", "molar_masses", "overall", "left", "right"} |->
                  CASE n = "fractions" -> w
                    [] n = "molar_masses" -> M
                    [] n = "overall" -> FromRat(76, 100)
                    [] n = "left" -> l
                    [] n = "right" -> FromRat(669, 100)]
    /\ results = <<>>
    /\ caught = {}

\* one call: the arguments are the caller's variables, the result is
\* printed and dropped, and the variables hold what the call left in them
SessionCall(fn) ==
    /\ script = "session"
    /\ Len(log) < 2 * MaxCalls
    /\ log' = log \o
         << Ev("call", fn,
               [k \in 1..Len(ParametersOf(fn)) |-> loc[ParametersOf(fn)[k]]]),
            Ev("return", fn,
               <<Apply(fn, [k \in 1..Len(ParametersOf(fn)) |->
                               loc[ParametersOf(fn)[k]]])>>) >>
    /\ loc' = [n \in DOMAIN loc |->
                 IF \E k \in 1..Len(ParametersOf(fn)) : ParametersOf(fn)[k] = n
                 THEN ArgumentsAfter(fn,
                        [k \in 1..Len(ParametersOf(fn)) |->
                            loc[ParametersOf(fn)[k]]])
                          [CHOOSE k \in 1..Len(ParametersOf(fn)) :
                              ParametersOf(fn)[k] = n]
                 ELSE loc[n]]
    /\ UNCHANGED <<utilVars, script, pc, status, installed, stdin, choice, fs,
                   results, caught>>

SessionLeverRule == SessionCall("lever_rule")
SessionWtToMoleFraction == SessionCall("wt_to_mole_fraction")
SessionMoleToWtFraction == SessionCall("mole_to_wt_fraction")

NextSession ==
    \/ SessionLeverRule
    \/ SessionWtToMoleFraction
    \/ SessionMoleToWtFraction

SpecSession == InitSession /\ [][NextSession]_vars

(***************************************************************************)
(* Claims about lever_rule.                                                *)
(***************************************************************************)
LeverReturned == call.fn = "lever_rule" /\ call.state = "returned"
overall == call.args[1]
left == call.args[2]
right == call.args[3]

\* C1: for left # right, lever_rule(overall, left, right) returns the pair
\* (fraction_left, fraction_right), left phase first, with
\* fraction_right = (overall - left) / (right - left) and
\* fraction_left = 1 - fraction_right.
C1_LeverRuleFormula ==
    (LeverReturned /\ left # right) =>
        /\ call.res.exc = "none"
        /\ Len(call.res.val) = 2
        /\ call.res.val[2] = FDiv(FSub(overall, left), FSub(right, left))
        /\ call.res.val[1] = FSub(One, call.res.val[2])

\* a call with left # right whose two fractions differ has returned
C1_Witness ==
    /\ LeverReturned
    /\ left # right
    /\ call.res.exc = "none"
    /\ call.res.val[1] # call.res.val[2]
    /\ overall = FromRat(52, 100)

\* C2: for left < overall < right the two fractions returned by lever_rule
\* sum to exactly 1 and each lies in [0, 1].
C2_LeverFractionsSumToOne ==
    (LeverReturned /\ FLt(left, overall) /\ FLt(overall, right)) =>
        /\ call.res.exc = "none"
        /\ FAdd(call.res.val[1], call.res.val[2]) = One
        /\ FLe(Zero, call.res.val[1]) /\ FLe(call.res.val[1], One)
        /\ FLe(Zero, call.res.val[2]) /\ FLe(call.res.val[2], One)

\* a call with left < overall < right has returned two fractions, neither
\* of which is a float that 1 - x reproduces exactly from the other side
C2_Witness ==
    /\ LeverReturned
    /\ FLt(left, overall) /\ FLt(overall, right)
    /\ call.res.exc = "none"
    /\ FLt(Zero, call.res.val[2])
    /\ FLt(call.res.val[2], FromRat(1, 2))

\* C3: when left = right, lever_rule returns (0, 0) for every overall
\* composition, overall = left included, and raises no ZeroDivisionError.
C3_LeverDegenerate ==
    (LeverReturned /\ left = right) =>
        /\ call.res.exc = "none"
        /\ call.res.val = <<Zero, Zero>>

\* a call with overall = left = right # 0 has returned
C3_Witness ==
    /\ LeverReturned
    /\ left = right
    /\ overall = left
    /\ left # Zero

(***************************************************************************)
(* Claims about the composition conversions.                               *)
(***************************************************************************)
RoundTripReturned == call.fn = "round_trip" /\ call.state = "returned"

\* floor(a * 2^(MantBits+3)): a in eighths of the unit roundoff 2^-MantBits
\* (floats of 2^20 and more count as 2^30)
Eighths(a) ==
    LET s == a[2] + MantBits + 3
    IN  IF a[1] = 0 THEN 0
        ELSE IF s >= 0
             THEN (IF s > 20 - MantBits THEN Pow2(30) ELSE Abs(a[1]) * Pow2(s))
                  * (IF a[1] < 0 THEN -1 ELSE 1)
             ELSE IF a[1] > 0 THEN a[1] \div Pow2(-s)
                  ELSE -((-a[1] + Pow2(-s) - 1) \div Pow2(-s))

\* the round-trip tolerance, in eighths of the unit roundoff 2^-MantBits
TolEighths == 16

\* C4: for weight fractions that sum to 1 and positive molar masses,
\* mole_to_wt_fraction(wt_to_mole_fraction(w, M), M) has the keys of w, in
\* the same order, and every value within 2 * 2^-MantBits (two units of
\* roundoff, TolEighths eighths of one) of the original.
C4_RoundTrip ==
    RoundTripReturned =>
        /\ call.res.exc = "none"
        /\ Len(call.res.val) = Len(call.args[1])
        /\ \A i \in 1..Len(call.args[1]) :
              /\ call.res.val[i][1] = call.args[1][i][1]
              /\ Abs(Eighths(call.res.val[i][2])
                     - Eighths(call.args[1][i][2])) <= TolEighths

\* a round trip of a three-element composition, none of its fractions zero,
\* with three different molar masses, has returned, and rounding has moved
\* one of the fractions
C4_Witness ==
    /\ RoundTripReturned
    /\ Len(call.args[1]) = 3
    /\ \A i \in 1..3 : call.args[1][i][2] # Zero
    /\ Cardinality({call.args[2][i][2] : i \in 1..3}) = 3
    /\ call.res.exc = "none"
    /\ \E i \in 1..3 : call.res.val[i][2] # call.args[1][i][2]

(***************************************************************************)
(* Claims about the menu program.                                          *)
(***************************************************************************)
\* how often the script did something
Events(ev) == {i \in DOMAIN log : log[i].ev = ev}
Calls(what) == Cardinality({i \in Events("call") : log[i].what = what})
Returns(what) == Cardinality({i \in Events("return") : log[i].what = what})
LinesRead == {i \in Events("input") : log[i].what = "line"}

PartAMain == "part_a_carbon_steel.main"
PartBMain == "part_b_simplified.main"

\* the menu has acted on the choice
Dispatched == script = "run_all" /\ choice # NoChoice /\ pc # "dispatch"

\* C5: with the dependencies satisfied, run_all.main reads exactly one line,
\* takes its strip() as the choice and acts on it: '1' calls Part A and never
\* Part B, '2' calls Part B and never Part A, '3' calls Part A and, when
\* Part A has returned, Part B, so that both have run when the script
\* completes, '4' calls neither and exits with status 0.  Nothing is read
\* a second time.
C5_MenuDispatch ==
    /\ script = "run_all" => Cardinality(Events("input")) <= 1
    /\ Dispatched =>
         /\ Missing(installed) = <<>>
         /\ Cardinality(LinesRead) = 1
         /\ \A i \in LinesRead : choice = strip(log[i].args[1])
         /\ choice = <<"1">> =>
              /\ Calls(PartAMain) = 1 /\ Calls(PartBMain) = 0
              /\ status = "done" => Returns(PartAMain) = 1
         /\ choice = <<"2">> =>
              /\ Calls(PartAMain) = 0 /\ Calls(PartBMain) = 1
              /\ status = "done" => Returns(PartBMain) = 1
         /\ choice = <<"3">> =>
              /\ Calls(PartAMain) = 1
              /\ Calls(PartBMain) =
                   IF Returns(PartAMain) = 1 /\ pc # "after_part_a"
                   THEN 1 ELSE 0
              /\ status = "done" =>
                   Returns(PartAMain) = 1 /\ Returns(PartBMain) = 1
         /\ choice = <<"4">> =>
              Calls(PartAMain) = 0 /\ Calls(PartBMain) = 0 /\ status = "exit0"
         /\ status \in {"done", "exit0"} =>
              choice \in {<<"1">>, <<"2">>, <<"3">>, <<"4">>}

\* choice '3', typed with blanks around it and followed by a second line,
\* has run both parts to the end, and the second line is still unread
C5_Witness ==
    /\ Dispatched
    /\ status = "done"
    /\ choice = <<"3">>
    /\ \E i \in LinesRead : log[i].args[1] = <<" ", "3", " ">>
    /\ stdin = << <<"2">> >>
    /\ Calls(PartAMain) = 1
    /\ Calls(PartBMain) = 1

\* the files written so far, in order
Writes == Events("savefig") \cup Events("to_csv")
PathOf(i) == log[i].args[1]

\* C9: within one run of the menu program no output path is written twice.
C9_WrittenOnce ==
    script = "run_all" =>
        \A i \in Writes : \A j \in Writes : PathOf(i) = PathOf(j) => i = j

\* choice '3' has run to the end and has written the thirteen figures and
\* tables of Part A and Part B
C9_Witness ==
    /\ script = "run_all"
    /\ choice = <<"3">>
    /\ status = "done"
    /\ Cardinality(Writes) = 13
    /\ Cardinality({PathOf(i) : i \in Writes}) = 13

\* the analysis procedures A1..A9 and B1, B2
Analyses ==
    { "plot_phase_diagram_a1", "plot_phase_diagram_a2", "find_critical_points",
      "fit_austenite_boundaries", "analyze_eutectoid_steel",
      "analyze_hypoeutectoid_steel", "analyze_hypereutectoid_steel",
      "analyze_steel_series", "plot_binary_fe_cr_c_schematic",
      "plot_ternary_fe_cr_c" }
AnalysisCalls == {i \in Events("call") : log[i].what \in Analyses}
FromAnalysis(i) ==
    {log[i].args[k].by : k \in DOMAIN log[i].args} \cap Analyses

SolverErrors == {"equilibrium", "extract"}
LastRaise == IF log # <<>> /\ log[Len(log)].ev = "raise"
             THEN Caught(log[Len(log)].what, log[Len(log)].args[1])
             ELSE Caught("none", "none")
ErrorRows == {k \in DOMAIN results : results[k][3] = <<"ERROR">>}

\* while the loop of plot_binary_at_fixed_cr runs: the rows are those of the
\* grid points walked so far, in order, the script is running, and there is
\* an 'ERROR' row exactly if the handler of the loop caught something
BinaryLoopSound ==
    /\ pc = "binary_grid" =>
         /\ status = "running"
         /\ Len(results) <= GridPoints
         /\ \A k \in DOMAIN results :
              results[k][1] = TempAt(k) /\ results[k][2] = CarbonAt(k)
         /\ ErrorRows # {} <=>
              \E kind \in SolverErrors :
                  Caught(kind, "plot_binary_at_fixed_cr") \in caught
    /\ ~(LastRaise.site = "plot_binary_at_fixed_cr"
            /\ LastRaise.kind \in SolverErrors)

\* a pass of the loop appends the row of its grid point, an 'ERROR' row if
\* the solver or the reading of its result raised, and leaves the script in
\* the loop, running
BinaryLoopStep ==
    (pc = "binary_grid" /\ Len(results) < GridPoints) =>
        /\ pc' = "binary_grid"
        /\ status' = "running"
        /\ Len(results') = Len(results) + 1
        /\ SubSeq(results', 1, Len(results)) = results
        /\ IF results'[Len(results')][3] = <<"ERROR">>
           THEN \E kind \in SolverErrors :
                    Caught(kind, "plot_binary_at_fixed_cr") \in caught'
           ELSE caught' = caught

\* C7: in plot_binary_at_fixed_cr an error of the solver, or of the reading
\* of its result, at a grid point never leaves the loop: it becomes the row
\* of that (T, C) point with phases 'ERROR', and the loop goes on to the
\* next grid point.
C7_SolverErrorRecorded == []BinaryLoopSound /\ [][BinaryLoopStep]_vars

\* the loop has been through all grid points: the solver raised at the
\* first, the reading of the result at the third, and the points after
\* them have their rows
C7_Witness ==
    /\ pc = "binary_grid"
    /\ Len(results) = GridPoints
    /\ results[1][3] = <<"ERROR">>
    /\ results[2][3] = <<"FCC_A1", "M23C6">>
    /\ results[3][3] = <<"ERROR">>
    /\ results[4][3] = <<"NONE">>
    /\ \A kind \in SolverErrors :
         Caught(kind, "plot_binary_at_fixed_cr") \in caught

\* the try blocks of the program: what they catch, and where
Handlers ==
    {Caught("import", "check_dependencies")}
    \cup {Caught(kind, "plot_binary_at_fixed_cr") : kind \in SolverErrors}
    \cup {Caught(kind, "plot_ternary_diagram") :
             kind \in SolverErrors \cup {"composition"}}
    \cup {Caught("import", test) :
             test \in {"test_imports", "test_pycalphad", "test_plotting"}}
    \cup { Caught("parse", "test_pycalphad"),
           Caught("makedirs", "test_plotting"),
           Caught("savefig", "test_plotting") }
Raises == Events("raise")

CaughtGoesOn == caught' # caught => status' # "traceback"

\* what was caught was caught by a handler of the program; an exception
\* raised anywhere else is the last thing the script does, and ends it in
\* a traceback
HandledOrFatal ==
    /\ caught \subseteq Handlers
    /\ \A i \in Raises : i = Len(log)
    /\ status = "traceback" <=> Raises # {}
    /\ Raises # {} => LastRaise \notin Handlers /\ pc = "ended"

Loads == Events("load")
FileOf(i) == log[i].what
Before(i) == log[i].args[1]
After(i) == log[i].args[2].content
Wrote(i) == After(i) # Before(i)
LoadedBy(i) == log[i].args[2]

\* C6 as stated, its last part: every call ends with the database loaded.
C6_EveryCallLoads == \A i \in Loads : LoadedBy(i).exc = "none"

\* C6: over any sequence of calls of the loaders, from any state of the two
\* files: a file is written only by a call that finds it absent, hence at
\* most once; once it exists no later call changes what it holds; and every
\* call that returns returns the database read from the file as it then
\* is.  A call raises instead of returning when the file is there but is
\* no database or cannot be read, or is absent and cannot be written.
C6_WrittenOnceThenReloaded ==
    /\ \A i \in Loads : Wrote(i) => ~exists(Before(i))
    /\ \A f \in DOMAIN fs :
         Cardinality({i \in Loads : FileOf(i) = f /\ Wrote(i)}) <= 1
    /\ \A i \in Loads : \A j \in Loads :
         (i < j /\ FileOf(i) = FileOf(j) /\ exists(After(i))) =>
             /\ Before(j) = After(i)
             /\ After(j) = After(i)
    /\ \A i \in Loads :
         IF LoadedBy(i).exc = "none"
         THEN /\ After(i).kind = "tdb"
              /\ LoadedBy(i).db = After(i).phases
         ELSE \/ Before(i).kind \in {"garbage", "truncated"}
              \/ LoadedBy(i).exc \in {"read", "open", "write"}
    /\ \A i \in Loads :
         Before(i).kind \in {"garbage", "truncated"} =>
             LoadedBy(i).exc # "none"

\* load_database was called three times on a directory without fe_c.tdb:
\* the first call could not open the file for writing, the second wrote it
\* and loaded the database, the third loaded it from the file
C6_Witness ==
    /\ Cardinality(Loads) = 3
    /\ \A i \in Loads : FileOf(i) = "fe_c.tdb"
    /\ ~exists(Before(1)) /\ LoadedBy(1).exc = "open" /\ ~Wrote(1)
    /\ Wrote(2) /\ LoadedBy(2).exc = "none"
    /\ After(2) = create_simple_fec_database
    /\ ~Wrote(3) /\ LoadedBy(3).exc = "none"
    /\ LoadedBy(3).db = create_simple_fec_database.phases

(***************************************************************************)
(* Claims about the files the analysis procedures write.                   *)
(***************************************************************************)
\* the analysis procedures of Part A and of both Part B modules
AnalysisProcedures ==
    Analyses \cup {"plot_binary_at_fixed_cr", "plot_ternary_diagram"}

\* an analysis procedure that was called at i and has returned: main went
\* on to call the next procedure or returned itself
ReturnedAnalyses ==
    {i \in Events("call") :
        /\ log[i].what \in AnalysisProcedures
        /\ \E j \in Events("call") \cup Events("return") : j > i}

\* the files of one kind written by the call at i
WrittenBy(i, ev) ==
    {j \in Events(ev) :
        /\ j > i
        /\ \A k \in Events("call") \cup Events("return") : k > i => j < k}
Plots(i) == Cardinality(WrittenBy(i, "savefig"))
Tables(i) == Cardinality(WrittenBy(i, "to_csv"))

NoPlot == {"analyze_hypoeutectoid_steel", "analyze_hypereutectoid_steel"}
TwoPlots == {"find_critical_points"}

\* C11 as stated: every analysis procedure that has run wrote exactly one
\* plot file and at most one CSV file.
C11_OnePlotEach ==
    \A i \in ReturnedAnalyses : Plots(i) = 1 /\ Tables(i) <= 1

\* C11: every analysis procedure that has run wrote at most one CSV file,
\* and exactly one plot file unless it is find_critical_points, which wrote
\* two (A3 and A4), or analyze_hypoeutectoid_steel or
\* analyze_hypereutectoid_steel (A7, A8), which wrote no file at all.
C11_PlotsAndTables ==
    \A i \in ReturnedAnalyses :
        /\ Tables(i) <= 1
        /\ Plots(i) = CASE log[i].what \in TwoPlots -> 2
                        [] log[i].what \in NoPlot -> 0
                        [] OTHER -> 1
        /\ log[i].what \in NoPlot => Tables(i) = 0

\* Part A has run to the end: find_critical_points wrote two figures and a
\* table, A7 and A8 wrote nothing, A9 wrote a figure and a table
C11_Witness ==
    /\ script = "run_all"
    /\ Returns(PartAMain) = 1
    /\ \E i \in ReturnedAnalyses :
         log[i].what = "find_critical_points" /\ Plots(i) = 2 /\ Tables(i) = 1
    /\ \E i \in ReturnedAnalyses :
         log[i].what = "analyze_hypereutectoid_steel" /\ Plots(i) = 0
    /\ \E i \in ReturnedAnalyses :
         log[i].what = "analyze_steel_series" /\ Plots(i) = 1 /\ Tables(i) = 1

\* every file written so far, the database files apart
FilesWritten == Writes \cup Events("write")

\* the extension of the file names the scripts use
suffix(filename) ==
    CASE filename \in {"A1_phase_diagram_with_graphite.png",
                       "A2_phase_diagram_without_graphite.png",
                       "A3_eutectic_analysis.png", "A4_eutectoid_analysis.png",
                       "A5_austenite_boundary_fits.png",
                       "A6_eutectoid_steel.png", "A7_hypoeutectoid_steel.png",
                       "A8_hypereutectoid_steel.png",
                       "A9_steel_microstructure_vs_carbon.png",
                       "B1_Fe12.5Cr_XC_phase_diagram.png",
                       "B2_Fe_Cr_C_ternary_diagram.png",
                       "test_plot.png"} -> ".png"
      [] filename \in {"A3_A4_critical_points.csv", "A9_steel_properties.csv",
                       "B1_phase_diagram_data.csv",
                       "B2_ternary_compositions.csv"} -> ".csv"
      [] filename \in {"A8_hypereutectoid_summary.txt"} -> ".txt"

\* what kind of file the write at i made: savefig takes the format from the
\* extension, to_csv writes comma-separated values, write writes text
KindOf(i) ==
    CASE log[i].ev = "savefig" -> suffix(PathOf(i)[2])
      [] log[i].ev = "to_csv" -> ".csv"
      [] log[i].ev = "write" -> ".txt"

InOutputs(i) == Len(PathOf(i)) = 2 /\ PathOf(i)[1] = "outputs"

\* C12 as stated: every file written is a PNG or a CSV file directly in
\* outputs/.
C12_PngOrCsvInOutputs ==
    \A i \in FilesWritten :
        InOutputs(i) /\ KindOf(i) \in {".png", ".csv"}
                     /\ suffix(PathOf(i)[2]) = KindOf(i)

\* C12: every file written (the database files apart) lies directly in
\* outputs/ and is a PNG figure saved by savefig or a CSV table written by
\* to_csv, named accordingly, except the text file
\* outputs/A8_hypereutectoid_summary.txt written by
\* create_A8_hypereutectoid_figure; save_plot writes to outputs/<filename>.
C12_FilesInOutputs ==
    \A i \in FilesWritten :
        /\ InOutputs(i)
        /\ suffix(PathOf(i)[2]) = KindOf(i)
        /\ log[i].ev = "savefig" => KindOf(i) = ".png"
        /\ log[i].ev = "write" =>
             /\ script = "generate_A6_A7_A8_figures"
             /\ PathOf(i) = Path("outputs", "A8_hypereutectoid_summary.txt")
             /\ \E j \in Events("call") :
                  /\ j < i
                  /\ log[j].what = "create_A8_hypereutectoid_figure"

\* the figure script has run to the end and has written two figures and the
\* summary
C12_Witness ==
    /\ script = "generate_A6_A7_A8_figures"
    /\ status = "done"
    /\ Cardinality(Events("savefig")) = 2
    /\ \E i \in Events("write") : KindOf(i) = ".txt" /\ InOutputs(i)

(***************************************************************************)
(* Claims about quadratic_fit.                                             *)
(***************************************************************************)
FitReturned == call.fn = "quadratic_fit" /\ call.state = "returned"
x_data == call.args[1]
y_data == call.args[2]
DistinctX == Cardinality({x_data[i] : i \in DOMAIN x_data})
OnSquare == \A i \in DOMAIN x_data : y_data[i] = FMul(x_data[i], x_data[i])

\* C13: for points on y = x^2 with at least three distinct x values
\* quadratic_fit returns (a, b, c) = (1, 0, 0): the coefficient of x^2
\* first, then that of x, then the constant.
C13_FitRecoversSquare ==
    (FitReturned /\ OnSquare /\ DistinctX >= 3) =>
        /\ call.res.exc = "none"
        /\ call.res.val = <<One, Zero, Zero>>

\* three points on y = x^2 with x = 3, 0, 2 have been fitted
C13_Witness ==
    /\ FitReturned
    /\ OnSquare
    /\ x_data = <<FromRat(3, 1), Zero, FromRat(2, 1)>>
    /\ call.res = Returned(<<One, Zero, Zero>>)

(***************************************************************************)
(* Claims about the state of the utility functions.                        *)
(***************************************************************************)
\* the calls of the session and what each returned
SessionCalls == {i \in Events("call") : script = "session"}
ResultOf(i) == log[i + 1].args[1]

\* the calls of one function on the caller's variables were all made with
\* the same arguments and have all returned the same result
Repeatable ==
    \A i \in SessionCalls : \A j \in SessionCalls :
        log[i].what = log[j].what =>
            log[i].args = log[j].args /\ ResultOf(i) = ResultOf(j)

\* a call leaves the caller's variables, the files and everything else but
\* the record of the call as they were
CallLeavesState ==
    script = "session" =>
        /\ loc' = loc
        /\ UNCHANGED <<utilVars, script, pc, status, installed, stdin, choice,
                       fs, results, caught>>

PointReturned ==
    /\ call.fn \in {"find_eutectic_point", "find_eutectoid_point"}
    /\ call.state = "returned"

\* C15: find_eutectic_point and find_eutectoid_point return a tuple
\* (temperature, composition) for the phase diagram given.
C15_ReturnsPoint ==
    PointReturned =>
        /\ call.res.exc = "none"
        /\ call.res.val # None
        /\ Len(call.res.val) = 2

(***************************************************************************)
(* Claims about the order of a run.                                        *)
(***************************************************************************)
\* where something happened in the log
CallsOf(what) == {i \in Events("call") : log[i].what = what}
ReturnsOf(what) == {i \in Events("return") : log[i].what = what}
PrintsOf(what) == {i \in Events("print") : log[i].what = what}
Banner ==
    PrintsOf("PROJECT COMPLETE")
        \cup PrintsOf("All calculations finished successfully!")

\* Part A was called and an exception left it
PartAFailed ==
    /\ CallsOf(PartAMain) # {}
    /\ ReturnsOf(PartAMain) = {}
    /\ Events("raise") # {}

CompleteProject ==
    (script = "run_all" /\ choice = <<"3">>) =>
        /\ \A j \in CallsOf(PartBMain) : \E i \in ReturnsOf(PartAMain) : i < j
        /\ \A k \in Banner :
             /\ \E i \in ReturnsOf(PartAMain) : i < k
             /\ \E j \in ReturnsOf(PartBMain) : j < k
        /\ \A k \in PrintsOf("All calculations finished successfully!") :
             k - 1 \in PrintsOf("PROJECT COMPLETE")
        /\ status = "done" => Cardinality(Banner) = 2
        /\ PartAFailed =>
             /\ status = "traceback"
             /\ CallsOf(PartBMain) = {}
             /\ Banner = {}

\* a script that has ended does nothing more
EndedForGood == status = "running"

\* C16: with choice '3' Part B is called only after Part A has returned,
\* the 'PROJECT COMPLETE' banner and 'All calculations finished
\* successfully!' are printed only after both parts have returned, and when
\* an exception leaves Part A the script ends there: Part B is never called
\* and the banner never printed.
C16_CompleteProject == []CompleteProject /\ [][EndedForGood]_vars

\* choice '3' has run both parts and the last thing printed is the banner
C16_Witness ==
    /\ script = "run_all"
    /\ choice = <<"3">>
    /\ status = "done"
    /\ Len(log) \in Banner
    /\ Cardinality(ReturnsOf(PartAMain)) = 1
    /\ Cardinality(ReturnsOf(PartBMain)) = 1

\* the dependency check has returned at i
Checked == ReturnsOf("check_dependencies")
CheckCall == CHOOSE i \in CallsOf("check_dependencies") : TRUE

DependencyGate ==
    (script = "run_all" /\ log # <<>>) =>
        /\ Cardinality(CallsOf("check_dependencies")) = 1
        /\ Cardinality(Events("__import__")) = Len(required)
        /\ \A k \in 1..Len(required) :
             /\ log[CheckCall + k].ev = "__import__"
             /\ log[CheckCall + k].what = required[k]
             /\ log[CheckCall + k].args[1] = (required[k] \in installed)
        /\ Checked = {CheckCall + Len(required) + 1}
        /\ \A i \in Checked :
             /\ log[i].args[1] = (Packages \subseteq installed)
             /\ log[i].args[1] = FALSE =>
                  /\ status = "exit1"
                  /\ Events("import") = {}
                  /\ PrintsOf("Select Analysis") = {}
                  /\ Events("input") = {}
                  /\ choice = NoChoice
                  /\ Events("call") = {CheckCall}
             /\ (log[i].args[1] = TRUE /\ status = "exit1") =>
                  PrintsOf("Invalid choice. Please run again.") # {}

\* C17: check_dependencies tries all five required packages, whichever is
\* missing, and returns True exactly when all five are installed; when it
\* returns False main exits with status 1 and nothing follows: no analysis
\* module is imported, no menu printed, no input read.
C17_DependencyGate == []DependencyGate /\ [][status = "running"]_vars

\* numpy, the second package, is the only one missing: the three packages
\* after it were tried all the same, and the script has exited with 1
C17_Witness ==
    /\ script = "run_all"
    /\ installed = Packages \ {"numpy"}
    /\ status = "exit1"
    /\ Cardinality({i \in Events("__import__") : log[i].args[1]}) = 4
    /\ stdin # <<>>

(***************************************************************************)
(* Claims about the choice.                                                *)
(***************************************************************************)
ValidChoices == {<<"1">>, <<"2">>, <<"3">>, <<"4">>}
Blank(s) == \A i \in DOMAIN s : s[i] \in {" ", "\t"}

\* t is line without its leading and trailing whitespace
StrippedTo(line, t) ==
    /\ t = <<>> \/ (~Blank(<<t[1]>>) /\ ~Blank(<<t[Len(t)]>>))
    /\ \E a \in 0..Len(line) :
         /\ a + Len(t) <= Len(line)
         /\ Blank(SubSeq(line, 1, a))
         /\ SubSeq(line, a + 1, a + Len(t)) = t
         /\ Blank(SubSeq(line, a + Len(t) + 1, Len(line)))

TypedLine == log[CHOOSE i \in LinesRead : TRUE].args[1]
InvalidPrinted == PrintsOf("Invalid choice. Please run again.")

ChoiceHandled ==
    Dispatched =>
        /\ Cardinality(LinesRead) = 1
        /\ StrippedTo(TypedLine, choice)
        /\ IF choice \in ValidChoices
           THEN /\ InvalidPrinted = {}
                /\ choice \in {<<"1">>, <<"3">>} => CallsOf(PartAMain) # {}
                /\ choice = <<"2">> => CallsOf(PartBMain) # {}
                /\ choice = <<"4">> => status = "exit0"
           ELSE /\ status = "exit1"
                /\ InvalidPrinted = {Len(log)}
                /\ CallsOf(PartAMain) = {} /\ CallsOf(PartBMain) = {}
                /\ AnalysisCalls = {}
                /\ Writes = {}
                /\ Cardinality(PrintsOf("Select Analysis")) = 1

\* C18: a line that, stripped of surrounding whitespace, is none of '1',
\* '2', '3', '4' makes run_all.main print 'Invalid choice. Please run
\* again.' and exit with status 1: no analysis runs and no second line is
\* read; whitespace around a valid digit is ignored.
C18_InvalidChoice == []ChoiceHandled /\ [][pc # "ended"]_vars

\* '3 3' was typed, with a second line behind it: the script has exited
\* with status 1 and the second line is unread
C18_Witness ==
    /\ Dispatched
    /\ TypedLine = <<"3", " ", "3">>
    /\ status = "exit1"
    /\ InvalidPrinted # {}
    /\ stdin = << <<"2">> >>

\* the steps of part_a_carbon_steel.main in the order of its code
PartASteps ==
    << "load_database", "plot_phase_diagram_a1", "plot_phase_diagram_a2",
       "find_critical_points", "fit_austenite_boundaries",
       "analyze_eutectoid_steel", "analyze_hypoeutectoid_steel",
       "analyze_hypereutectoid_steel", "analyze_steel_series" >>
IsStep(e) ==
    e.ev = "call" /\ \E k \in DOMAIN PartASteps : e.what = PartASteps[k]

\* the steps called so far, in the order of the calls
StepCalls == SelectSeq(log, IsStep)
PartAHeader == PrintsOf("PART A COMPLETE")

PartAInOrder ==
    script = "run_all" =>
        /\ Len(StepCalls) <= Len(PartASteps)
        /\ \A k \in DOMAIN StepCalls : StepCalls[k].what = PartASteps[k]
        /\ StepCalls # <<>> => CallsOf(PartAMain) # {}
        /\ \A i \in CallsOf("find_critical_points") :
             /\ log[i].args = <<loc["eq_a2"]>>
             /\ log[i].args[1].by = "plot_phase_diagram_a2"
             /\ \A k \in DOMAIN log[i].args[1].val :
                  log[i].args[1].val[k] # "GRAPHITE"
        /\ Cardinality(PartAHeader) <= 1
        /\ \A h \in PartAHeader :
             /\ Len(StepCalls) = Len(PartASteps)
             /\ \A i \in Events("call") : IsStep(log[i]) => i < h
             /\ Events("raise") \cap 1..h = {}
        /\ \A i \in ReturnsOf(PartAMain) : i - 1 \in PartAHeader
        /\ \A r \in Events("raise") :
             /\ r = Len(log)
             /\ status = "traceback"
             /\ \A k \in DOMAIN PartASteps :
                  log[r].args[1] = PartASteps[k] => Len(StepCalls) = k

\* C19: part_a_carbon_steel.main calls load_database, A1, A2,
\* find_critical_points, A5, A6, A7, A8 and A9 once each, in this order,
\* and then prints 'PART A COMPLETE'; find_critical_points is handed the
\* result of A2, the diagram without graphite; once a step has raised no
\* later step is called.
C19_PartAInOrder == []PartAInOrder /\ [][Events("raise") = {}]_vars

\* Part A has returned after its nine steps, on a database with graphite,
\* so that the results of A1 and A2 differ
C19_Witness ==
    /\ script = "run_all"
    /\ ReturnsOf(PartAMain) # {}
    /\ Len(StepCalls) = 9
    /\ loc["eq_a1"].val # loc["eq_a2"].val
    /\ \E i \in CallsOf("find_critical_points") : log[i].args[1] # loc["eq_a1"]

(***************************************************************************)
(* Claims about the B1 table.                                              *)
(***************************************************************************)
\* the loop of plot_binary_at_fixed_cr is running or has just finished
InBinaryLoop == pc = "binary_grid"

\* the names of a solver result that go into the phases field: those of
\* the vertices whose name has a character that is not blank and whose
\* fraction is a number above 1e-6
NonBlank(name) == SelectSeq(name, LAMBDA ch : ch \notin {" ", "\t"})
Joined(eq) ==
    LET kept == SelectSeq(eq, LAMBDA vertex :
                    /\ NonBlank(vertex[1]) # <<>>
                    /\ vertex[2] # NaN
                    /\ vertex[2] > Threshold)
    IN  [i \in 1..Len(kept) |-> NonBlank(kept[i][1])[1]]

\* the phases field for what the solver did at a grid point
PhasesField(outcome) ==
    IF outcome.exc # "none" THEN <<"ERROR">>
    ELSE IF Joined(outcome.val) = <<>> THEN <<"NONE">>
    ELSE Joined(outcome.val)

\* the rows so far are those of the pairs (carbon content, temperature)
\* walked so far, carbon content outside and temperature inside, one row
\* for each pair
B1Table ==
    /\ Len(c_wts) = 11 /\ Len(temps) = 11
    /\ Cardinality({c_wts[i] : i \in 1..11}) = 11
    /\ Cardinality({temps[j] : j \in 1..11}) = 11
    /\ InBinaryLoop =>
         /\ Len(results) <= NCarbon * NTemp
         /\ \A i \in 1..NCarbon : \A j \in 1..NTemp :
              (i - 1) * NTemp + j <= Len(results) =>
                 /\ results[(i - 1) * NTemp + j][2] = c_wts[i]
                 /\ results[(i - 1) * NTemp + j][1] = temps[j]
         /\ \A k \in DOMAIN results :
              /\ Len(results[k]) = 3
              /\ \E o \in SolverOutcomes : results[k][3] = PhasesField(o)

\* a pass through the loop body appends one row, whatever the solver did
B1RowAdded ==
    (InBinaryLoop /\ pc' = pc) =>
        \E o \in SolverOutcomes :
            /\ Len(results') = Len(results) + 1
            /\ SubSeq(results', 1, Len(results)) = results
            /\ results'[Len(results')][3] = PhasesField(o)

\* the table is written when the walk is complete
B1TableComplete ==
    (InBinaryLoop /\ pc' # pc) => Len(results) = NCarbon * NTemp

\* C20: the B1 table of plot_binary_at_fixed_cr has exactly one row for
\* every pair of the 11 carbon contents and 11 temperatures, carbon content
\* outside and temperature inside, whatever the solver returns or raises;
\* the phases field of a row is the joined names of the phases with a
\* non-empty name and a fraction above 1e-6, 'NONE' if there is none, or
\* 'ERROR'.  (The model walks the first NCarbon x NTemp pairs.)
C20_B1Table ==
    /\ []B1Table
    /\ [][B1RowAdded]_vars
    /\ [][B1TableComplete]_vars

\* the walk is complete, with an 'ERROR' row, a 'NONE' row and a row of
\* two phases, that of a result with a third phase at exactly 1e-6
C20_Witness ==
    /\ InBinaryLoop
    /\ Len(results) = NCarbon * NTemp
    /\ \E k \in DOMAIN results : results[k][3] = <<"ERROR">>
    /\ \E k \in DOMAIN results : results[k][3] = <<"NONE">>
    /\ \E k \in DOMAIN results : results[k][3] = <<"FCC_A1", "M23C6">>
    /\ results[NCarbon * NTemp][2] = c_wts[NCarbon]
    /\ results[NCarbon * NTemp][1] = temps[NTemp]

(***************************************************************************)
(* Claims about the phase lists.                                           *)
(***************************************************************************)
\* the calls of the solver made by the phase diagram procedure proc: the
\* solver is the first thing the procedure does after its call
SolverCalls(proc) ==
    {i \in Events("equilibrium") :
        i > 1 /\ log[i - 1].ev = "call" /\ log[i - 1].what = proc}

Position(list, p) == CHOOSE k \in DOMAIN list : list[k] = p

\* sub is the list requested restricted to the phases of db, in the order
\* of requested
RestrictionOf(sub, requested, db) ==
    /\ {sub[k] : k \in DOMAIN sub} = {requested[k] : k \in DOMAIN requested} \cap db
    /\ \A a \in DOMAIN sub : \A b \in DOMAIN sub :
         a < b => Position(requested, sub[a]) < Position(requested, sub[b])

PassedTo(i) == log[i].args[1]
HasGraphite(list) == \E k \in DOMAIN list : list[k] = "GRAPHITE"

\* C21: the phase list passed to the equilibrium solver is the requested
\* list restricted to the phases of the database, in the requested order;
\* that of A2 never contains GRAPHITE, that of A1 contains it exactly when
\* the database defines it.
C21_PhasesPassed ==
    script = "run_all" =>
        /\ \A i \in SolverCalls("plot_phase_diagram_a1") :
             /\ RestrictionOf(PassedTo(i),
                   <<"LIQUID", "BCC_A2", "FCC_A1", "CEMENTITE", "GRAPHITE">>,
                   loc["db"].val)
             /\ HasGraphite(PassedTo(i)) <=> "GRAPHITE" \in loc["db"].val
        /\ \A i \in SolverCalls("plot_phase_diagram_a2") :
             /\ RestrictionOf(PassedTo(i),
                   <<"LIQUID", "BCC_A2", "FCC_A1", "CEMENTITE">>,
                   loc["db"].val)
             /\ ~HasGraphite(PassedTo(i))
        /\ Calls("find_critical_points") > 0 =>
             /\ SolverCalls("plot_phase_diagram_a1") # {}
             /\ SolverCalls("plot_phase_diagram_a2") # {}

\* both diagrams were computed on a database with graphite: A1 was given
\* five phases with GRAPHITE last, A2 the first four
C21_Witness ==
    /\ script = "run_all"
    /\ loc["db"].by = "load_database"
    /\ "GRAPHITE" \in loc["db"].val
    /\ \E i \in SolverCalls("plot_phase_diagram_a1") :
         Len(PassedTo(i)) = 5 /\ PassedTo(i)[5] = "GRAPHITE"
    /\ \E i \in SolverCalls("plot_phase_diagram_a2") : Len(PassedTo(i)) = 4

(***************************************************************************)
(* Claims about the edge cases of the utility functions.                   *)
(***************************************************************************)
Conversions == {"wt_to_mole_fraction", "mole_to_wt_fraction"}
AllZero(d) == \A k \in DOMAIN d : d[k][2] = Zero

\* the calls of a conversion on a composition whose total is zero
ZeroTotalCalls ==
    {i \in SessionCalls : log[i].what \in Conversions /\ AllZero(log[i].args[1])}

\* C22 as stated: a conversion called with a composition whose total is
\* zero, all entries zero or no entries, fails with a division by zero.
C22_ZeroTotalFails ==
    \A i \in ZeroTotalCalls : ResultOf(i).exc = "ZeroDivisionError"

\* C22: the left == right guard of lever_rule is the only edge case handled:
\* a conversion called with a composition that has entries, all of them
\* zero, fails with a division by zero; called with a composition without
\* entries it divides nothing and returns an empty dictionary.
C22_ZeroTotal ==
    /\ \A i \in ZeroTotalCalls :
         IF log[i].args[1] = <<>>
         THEN ResultOf(i) = Returned(<<>>)
         ELSE ResultOf(i) = Raised("ZeroDivisionError")
    /\ \A i \in SessionCalls :
         (log[i].what = "lever_rule" /\ log[i].args[2] = log[i].args[3]) =>
             ResultOf(i) = Returned(<<Zero, Zero>>)

\* both conversions were called on {'FE': 0.0, 'C': 0.0} with molar masses
\* that are not zero, and both raised
C22_Witness ==
    /\ script = "session"
    /\ loc["fractions"] = << <<"FE", Zero>>, <<"C", Zero>> >>
    /\ \A k \in DOMAIN loc["molar_masses"] : loc["molar_masses"][k][2] # Zero
    /\ \E i \in ZeroTotalCalls : log[i].what = "wt_to_mole_fraction"
    /\ \E i \in ZeroTotalCalls :
         /\ log[i].what = "mole_to_wt_fraction"
         /\ ResultOf(i).exc = "ZeroDivisionError"

(***************************************************************************)
(* Claims about the steel series of A9.                                    *)
(***************************************************************************)
\* the table analyze_steel_series has returned: rows <<C, Cementite, Pearlite>>
SeriesReturned ==
    script = "run_all" /\ loc["steel_df"].by = "analyze_steel_series"
SteelTable == loc["steel_df"].val
Percentage(x) == FLe(Zero, x) /\ FLe(x, Hundred)

\* C23: every row of the A9 table has a Cementite percentage and a Pearlite
\* percentage in [0, 100].
C23_PercentagesInRange ==
    SeriesReturned =>
        /\ Len(SteelTable) = 6
        /\ \A k \in DOMAIN SteelTable :
             Percentage(SteelTable[k][2]) /\ Percentage(SteelTable[k][3])

(***************************************************************************)
(* Claims about the pearlite fraction of A9.                               *)
(***************************************************************************)
SeriesLoopReturned ==
    call.fn = "analyze_steel_series" /\ call.state = "returned"

\* the two branch formulas of the loop, written out
HypoFormula(C) ==
    FDiv(FSub(C, C_ferrite), FSub(C_eutectoid_a9, C_ferrite))
HyperFormula(C) ==
    FSub(One, FDiv(FSub(C, C_eutectoid_a9),
                   FSub(C_cementite, C_eutectoid_a9)))

\* the fraction the claim gives for a carbon content
ClaimedPearlite(C) ==
    IF FLt(C, C_eutectoid_a9) THEN lever_rule(C, C_ferrite, C_eutectoid_a9).val[2]
    ELSE IF FLt(C_eutectoid_a9, C) THEN HyperFormula(C)
    ELSE One

\* W_pearlite computed for the i-th carbon content of the call
W_pearlite(i) == call.res.val[i]

\* between two contents on one side of the eutectoid the fraction moves
\* strictly: up below the eutectoid, down above it
StrictlyMonotone(C1, C2) ==
    /\ (FLt(C1, C2) /\ FLe(C2, C_eutectoid_a9)) =>
           FLt(W_pearlite(1), W_pearlite(2))
    /\ (FLe(C_eutectoid_a9, C1) /\ FLt(C1, C2)) =>
           FLt(W_pearlite(2), W_pearlite(1))

\* C24: the pearlite fraction of A9 is lever_rule's right fraction between
\* 0.02 and 0.76 below the eutectoid, 1 - (C - 0.76)/(6.69 - 0.76) above
\* it and 1 at it; both branch formulas give 1 at C = 0.76; the fraction
\* never exceeds 1; it is strictly increasing in C below the eutectoid and
\* strictly decreasing above it.
C24_PearliteFraction ==
    SeriesLoopReturned =>
        /\ call.res.exc = "none"
        /\ \A i \in 1..2 :
             /\ W_pearlite(i) = ClaimedPearlite(call.args[i])
             /\ FLe(W_pearlite(i), One)
        /\ lever_rule(C_eutectoid_a9, C_ferrite, C_eutectoid_a9).val[2] = One
        /\ HypoFormula(C_eutectoid_a9) = One
        /\ HyperFormula(C_eutectoid_a9) = One
        /\ StrictlyMonotone(call.args[1], call.args[2])

\* the eutectoid steel and a steel of 1.0 wt% C have been evaluated: the
\* first is all pearlite, the second less
C24_Witness ==
    /\ SeriesLoopReturned
    /\ call.args = <<C_eutectoid_a9, One>>
    /\ W_pearlite(1) = One
    /\ FLt(W_pearlite(2), One)
    /\ FLt(Zero, W_pearlite(2))

=============================================================================
